---- MODULE Spec2Model ----
(***************************************************************************)
(* Verification model of the web-content acquisition core:                 *)
(*   - near-duplicate paragraph filter   (content_utils.py)                *)
(*   - tiered crawl orchestrator         (crawl_adapter.py)                *)
(*   - fixed-window request limiter      (api_crawlers.py)                 *)
(*   - sliding-window token limiter      (rate_limiter 2.py)               *)
(*   - budget tracking / dispatch        (nodes.py, graph.py, tools.py)    *)
(* Each subsystem has its own specification (SpecCrawl, SpecDedup, ...);   *)
(* the variables of the other subsystems stay at their initial value.      *)
(***************************************************************************)
EXTENDS Integers, Sequences, FiniteSets, TLC

VARIABLES
    \* ---- crawl_pages (one invocation of CrawlAdapter.crawl_pages) ----
    urls,          \* the caller's list of URLs
    use_browser,   \* CrawlAdapter.use_browser
    pc,            \* "idle" | "levels" | "done"
    level_idx,     \* index into crawl_levels of the next level to run (1-based)
    results,       \* crawl_pages local `results`
    urls_to_try,   \* crawl_pages local `urls_to_try`
    fetch_log,     \* one entry per URL handed to a level: [level, url, ok]
    returned,      \* the list crawl_pages returns
    failed_urls,   \* CrawlAdapter.failed_urls
    \* ---- deduplicate_paragraphs applied to a text, and to its own output ----
    text,          \* the input text
    out1,          \* deduplicate_paragraphs(text)
    out2,          \* deduplicate_paragraphs(out1)
    dpc,           \* "input" | "once" | "twice", or the progress on pages
    \* ---- the concurrent tasks of one tier of crawl_pages ----
    tier,          \* [level, max_concurrency, timeout_per_url] of the tier
    sem,           \* the permits the semaphore of the tier has left
    tasks,         \* one per outstanding URL: [url, pc, dog (the first answer), result]
    in_flight,     \* the requests on the wire: [task, service]
    fetch_count,   \* task -> service -> requests sent so far
    response,      \* the page a lightweight fetch under study brought back
    \* ---- the two filters applied to the pages of one crawl ----
    in_pages,      \* the pages handed to aggregate_and_dedup, in order
    in_threshold,  \* the similarity_threshold of the calls, in percent
    updated_pages, \* aggregate_and_dedup(in_pages, in_threshold)
    deduplicated,  \* deduplicate_paragraphs of the content of each page
    \* ---- RedisFixedWindowRPS shared by concurrent callers of acquire ----
    rps,           \* RedisFixedWindowRPS.rps
    rclock,        \* wall clock, in milliseconds
    rkeys,         \* the counter keys alive in the store: bucket -> [val, expire_at, life]
    rlives,        \* bucket -> how many times its key has been created
    callers,       \* caller -> [pc, now_ms, bucket, val, wake]
    admitted,      \* the admissions: [caller, bucket, life]
    \* ---- RedisRateLimiter shared by concurrent workers of reserve_tokens ----
    limit,         \* RedisRateLimiter.limit
    tclock,        \* wall clock, in units of SecondsPerUnit
    zset,          \* the sorted set: entries [id, score, tokens]
    workers,       \* worker -> [pc, token_count, start_time, retry_count, usage, wake, result]
    \* ---- one research session: budget tracking and dispatch ----
    plan,          \* tools_budgeting of the plan, and the budgets of the state
    budget_remaining, \* ReactGraph.budget_remaining
    store,         \* BudgetManager._store: thread_id -> [budget, usage]
    sstate,        \* the fields of the graph state the hooks and the controller use
    executed,      \* the tool calls handed to the tool node so far
    tool_results   \* what the tools returned for them: [outcome, result]

tierVars == <<tier, sem, tasks, in_flight, fetch_count, response>>

crawlVars == <<urls, use_browser, pc, level_idx, results, urls_to_try,
               fetch_log, returned, failed_urls, tierVars>>

pagesVars == <<in_pages, in_threshold, updated_pages, deduplicated>>

dedupVars == <<text, out1, out2, dpc, pagesVars>>

rpsVars == <<rps, rclock, rkeys, rlives, callers, admitted>>

tpmVars == <<limit, tclock, zset, workers>>

budgetVars == <<plan, budget_remaining, store, sstate, executed, tool_results>>

vars == <<crawlVars, dedupVars, rpsVars, tpmVars, budgetVars>>

\* a subsystem that takes no part in a specification stays as constructed
TierIdle ==
    /\ tier = <<>> /\ sem = 0 /\ tasks = <<>> /\ in_flight = {} /\ fetch_count = <<>>
    /\ response = <<>>

CrawlIdle ==
    /\ urls = <<>> /\ use_browser = FALSE /\ pc = "off" /\ level_idx = 0
    /\ results = <<>> /\ urls_to_try = <<>> /\ fetch_log = <<>>
    /\ returned = <<>> /\ failed_urls = {}
    /\ TierIdle

PagesIdle ==
    in_pages = <<>> /\ in_threshold = 0 /\ updated_pages = <<>> /\ deduplicated = <<>>

DedupIdle == text = <<>> /\ out1 = <<>> /\ out2 = <<>> /\ dpc = "off" /\ PagesIdle

RpsIdle ==
    /\ rps = 0 /\ rclock = 0 /\ rkeys = <<>> /\ rlives = <<>>
    /\ callers = <<>> /\ admitted = {}

TpmIdle == limit = 0 /\ tclock = 0 /\ zset = <<>> /\ workers = <<>>

BudgetIdle ==
    /\ plan = <<>> /\ budget_remaining = <<>> /\ store = <<>>
    /\ sstate = <<>> /\ executed = <<>> /\ tool_results = <<>>

\* ------------------------------------------------------------------------
\* Generic helpers
\* ------------------------------------------------------------------------
Range(s) == {s[i] : i \in DOMAIN s}

Max(a, b) == IF a >= b THEN a ELSE b

Min(a, b) == IF a <= b THEN a ELSE b

RECURSIVE SeqsUpTo(_, _)
\* all sequences over S of length 0..n
SeqsUpTo(S, n) ==
    IF n = 0 THEN {<<>>}
    ELSE LET shorter == SeqsUpTo(S, n - 1)
         IN  shorter \cup {Append(s, x) : s \in {t \in shorter : Len(t) = n - 1}, x \in S}

\* ------------------------------------------------------------------------
\* Text.  A text is the sequence of the chunks between its "\n\n"
\* separators.  A chunk is blank (whitespace only) or holds one paragraph,
\* possibly with leading whitespace (pad), as in "a\n\n\nb".  A paragraph is
\* its stripped character count and the bits of its normalised SimHash.
\* ------------------------------------------------------------------------
Blank == [fp |-> 0, len |-> 0]

Para(fp, len) == [fp |-> fp, len |-> len]

Chunk(p) == [p |-> p, pad |-> FALSE]

IsBlankChunk(c) == c.p = Blank

\* `not content or not content.strip()`
IsBlankText(content) == \A i \in DOMAIN content : IsBlankChunk(content[i])

\* [p.strip() for p in content.split('\n\n') if p.strip()]
RECURSIVE SplitParagraphs(_)
SplitParagraphs(content) ==
    IF content = <<>> THEN <<>>
    ELSE IF IsBlankChunk(Head(content)) THEN SplitParagraphs(Tail(content))
         ELSE <<Head(content).p>> \o SplitParagraphs(Tail(content))

\* '\n\n'.join(paragraphs)
JoinParagraphs(paragraphs) == [i \in DOMAIN paragraphs |-> Chunk(paragraphs[i])]

RECURSIVE SumLen(_)
SumLen(content) ==
    IF content = <<>> THEN 0
    ELSE Head(content).p.len + (IF Head(content).pad THEN 1 ELSE 0) + SumLen(Tail(content))

\* len(text): the chunks and the two-character separators between them
TextLen(content) ==
    IF content = <<>> THEN 0 ELSE SumLen(content) + 2 * (Len(content) - 1)

RECURSIVE StripLeft(_)
StripLeft(content) ==
    IF content = <<>> THEN <<>>
    ELSE IF IsBlankChunk(Head(content)) THEN StripLeft(Tail(content))
         ELSE <<[Head(content) EXCEPT !.pad = FALSE]>> \o Tail(content)

RECURSIVE StripRight(_)
StripRight(content) ==
    IF content = <<>> THEN <<>>
    ELSE IF IsBlankChunk(content[Len(content)])
         THEN StripRight(SubSeq(content, 1, Len(content) - 1))
         ELSE content

\* len(text.strip())
StrippedLen(content) == TextLen(StripRight(StripLeft(content)))

\* ------------------------------------------------------------------------
\* SimHash fingerprints: 64-bit values, here the set of bits that are set.
\* ------------------------------------------------------------------------
HashBits == 64

\* Simhash(self._normalize_text(paragraph))
Simhash(paragraph) == {b \in 0..(HashBits - 1) : b < paragraph.fp}

\* Simhash.distance: number of differing bits
distance(h1, h2) == Cardinality((h1 \ h2) \cup (h2 \ h1))

similarity_threshold == 85   \* percent (0.85)

min_paragraph_length == 50

IsSimilarAbove(h1, h2, threshold) ==
    (HashBits - distance(h1, h2)) * 100 > threshold * HashBits

\* similarity = 1 - hamming_distance / 64.0 ; similarity >= similarity_threshold
IsSimilar(h1, h2, threshold) ==
    (HashBits - distance(h1, h2)) * 100 >= threshold * HashBits

\* index of the first element of s satisfying Test, 0 when there is none
FirstIndex(s, Test(_)) ==
    IF \E i \in DOMAIN s : Test(s[i])
    THEN CHOOSE i \in DOMAIN s : Test(s[i]) /\ \A j \in 1..(i - 1) : ~Test(s[j])
    ELSE 0

\* which hash stays in seen_hashes when a longer duplicate replaces a paragraph
ReplacedHash(existing_hash, paragraph_hash) == existing_hash

\* one iteration of the loop of deduplicate_paragraphs over `paragraph`
\* st = [seen |-> seen_hashes, dedup |-> deduplicated]
DedupStep(st, paragraph, threshold, min_len) ==
    IF paragraph.len < min_len
    THEN [st EXCEPT !.dedup = Append(@, paragraph)]
    ELSE LET paragraph_hash == Simhash(paragraph)
             Dup(e) == IsSimilar(paragraph_hash, e.hash, threshold)
             j == FirstIndex(st.seen, Dup)
         IN  IF j = 0
             THEN [seen  |-> Append(st.seen, [hash |-> paragraph_hash, para |-> paragraph]),
                   dedup |-> Append(st.dedup, paragraph)]
             ELSE LET existing_hash == st.seen[j].hash
                      existing_para == st.seen[j].para
                      SamePara(x) == x = existing_para
                      SameSeen(e) == e.para = existing_para
                      i  == FirstIndex(st.dedup, SamePara)
                      j2 == FirstIndex(st.seen, SameSeen)
                  IN  IF paragraph.len > existing_para.len /\ i # 0
                      THEN [seen  |-> [st.seen EXCEPT ![j2] =
                                          [hash |-> ReplacedHash(existing_hash, paragraph_hash),
                                           para |-> paragraph]],
                            dedup |-> [st.dedup EXCEPT ![i] = paragraph]]
                      ELSE st

RECURSIVE DedupLoop(_, _, _, _)
DedupLoop(paragraphs, st, threshold, min_len) ==
    IF paragraphs = <<>> THEN st
    ELSE DedupLoop(Tail(paragraphs),
                   DedupStep(st, Head(paragraphs), threshold, min_len),
                   threshold, min_len)

\* ContentUtils.deduplicate_paragraphs
deduplicate_paragraphs(content, threshold, min_len) ==
    IF IsBlankText(content) THEN <<>>
    ELSE LET paragraphs == SplitParagraphs(content)
         IN  IF Len(paragraphs) <= 1 THEN content
             ELSE JoinParagraphs(
                      DedupLoop(paragraphs, [seen |-> <<>>, dedup |-> <<>>],
                                threshold, min_len).dedup)

\* the paragraph loop of aggregate_and_dedup for one page
\* st = [pool |-> global_paragraph_hashes, kept |-> deduplicated_paragraphs]
RECURSIVE CrossPageLoop(_, _, _)
CrossPageLoop(paragraphs, st, threshold) ==
    IF paragraphs = <<>> THEN st
    ELSE LET paragraph == Head(paragraphs)
             paragraph_hash == Simhash(paragraph)
             Dup(h) == IsSimilar(paragraph_hash, h, threshold)
         IN  CrossPageLoop(Tail(paragraphs),
                 IF FirstIndex(st.pool, Dup) # 0 THEN st
                 ELSE [pool |-> Append(st.pool, paragraph_hash),
                       kept |-> Append(st.kept, paragraph)],
                 threshold)

SeenOnThisPage(acc) == <<>>

\* global_paragraph_hashes is created before the page loop: a page starts
\* with the paragraphs retained so far
SeenBefore(acc) == acc.pool

\* the page loop of aggregate_and_dedup: acc = [pool, out]
RECURSIVE PagesLoop(_, _, _)
PagesLoop(pages, acc, threshold) ==
    IF pages = <<>> THEN acc
    ELSE LET page == Head(pages)
         IN  IF IsBlankText(page.md)
             THEN PagesLoop(Tail(pages), [acc EXCEPT !.out = Append(@, page)], threshold)
             ELSE LET r == CrossPageLoop(SplitParagraphs(page.md),
                                         [pool |-> SeenBefore(acc), kept |-> <<>>], threshold)
                  IN  PagesLoop(Tail(pages),
                                [pool |-> r.pool,
                                 out  |-> Append(acc.out,
                                            [page EXCEPT !.md = JoinParagraphs(r.kept)])],
                                threshold)

\* ContentUtils.aggregate_and_dedup (content_key = 'deduplicated_markdown')
aggregate_and_dedup(pages, threshold) ==
    IF Len(pages) <= 1 THEN pages
    ELSE PagesLoop(pages, [pool |-> <<>>, out |-> <<>>], threshold).out

\* ------------------------------------------------------------------------
\* Tiered crawl orchestrator (crawl_adapter.py)
\* ------------------------------------------------------------------------
MaxUrls == 2

InputUrls == {"a", "b"}

\* URLs a response can end at after redirects (Response.url / result.url)
FinalUrls == InputUrls \cup {"z"}

\* A fetched page: the markdown the converter produced from it, the length
\* of its raw HTML and whether the markdown holds a bot-wall phrase.
TextOk == <<Chunk(Para(0, 700)), Chunk(Para(18, 600))>>

PageOk == [md |-> TextOk, html |-> 6000, phrase |-> FALSE]

\* a bot wall: long enough, but with a challenge phrase
PageWall == [md |-> TextOk, html |-> 6000, phrase |-> TRUE]

\* the pages a fetch can bring back
Pages == {PageOk, PageWall}

NoPage == [md |-> <<>>, html |-> 0, phrase |-> FALSE]

\* CrawlAdapter.__init__: self.crawl_levels
crawl_levels(browser) ==
    IF browser THEN <<"requests", "crawl4ai", "apis">> ELSE <<"requests", "apis">>

\* CrawlAdapter._is_security_challenge(markdown_content, result)
_is_security_challenge(page) ==
    \/ StrippedLen(page.md) < 1000
    \/ page.phrase

\* CrawlAdapter._looks_blocked_or_empty(url, status, html, markdown)
_looks_blocked_or_empty(page) ==
    \/ StrippedLen(page.md) < 150
    \/ _is_security_challenge(page)
    \/ TextLen(page.md) * 100 < 2 * Max(page.html, 1)

Record(url, page, ok, error, src) ==
    [url |-> url, md |-> IF ok THEN page.md ELSE <<>>,
     page |-> IF ok THEN page ELSE NoPage,
     success |-> ok, error |-> error, src |-> src]

\* what one lightweight HTTP fetch can do
RequestOutcomes ==
    [kind : {"page"}, page : Pages, final : FinalUrls]
    \cup [kind : {"http_error", "exception"}, page : {NoPage}, final : {"z"}]

\* _fetch_urls_via_requests.fetch_one(url) for the response o
fetch_one(url, o) ==
    IF o.kind = "page"
    THEN IF ~_looks_blocked_or_empty(o.page)
         THEN Record(o.final, o.page, TRUE, "none", "requests")
         ELSE Record(o.final, o.page, FALSE, "JS rendering required", "requests")
    ELSE IF o.kind = "http_error"
         THEN Record(url, NoPage, FALSE, "HTTP status", "requests")
         ELSE Record(url, NoPage, FALSE, "exception", "requests")

\* what the browser crawl can report for one URL
BrowserOutcomes ==
    [kind : {"ok200"}, page : Pages, final : FinalUrls]
    \cup [kind : {"failed"}, page : {NoPage}, final : {"z"}]

\* the body of the result loop of _crawl_with_crawl4ai for urls[i]
crawl4ai_one(url, o) ==
    IF o.kind = "ok200"
    THEN IF _is_security_challenge(o.page)
         THEN Record(o.final, o.page, FALSE, "Security challenge", "crawl4ai")
         ELSE Record(o.final, o.page, TRUE, "none", "crawl4ai")
    ELSE Record(url, NoPage, FALSE, "Crawl failed", "crawl4ai")

\* what the paid-API services can answer for one URL: each service call
\* returns a page or fails (failure, timeout and exception take the same
\* path); `outer` is the wait_for around the whole task in crawl_via_apis
ApiAnswers == Pages \cup {NoPage}

ApiOutcomes ==
    [outer : {"done", "timeout", "exception"},
     dog : ApiAnswers, dog_js : ApiAnswers, bright : ApiAnswers]

\* dog_result['success'] and dog_result['html_content']
ApiSuccess(answer) == answer # NoPage

\* CrawlAdapter._format_api_result
_format_api_result(url, page, api_used) == Record(url, page, TRUE, "none", "api")

\* CrawlAdapter._crawl_single_url_via_apis(url, semaphore) (needs_js = False)
_crawl_single_url_via_apis(url, o) ==
    IF ApiSuccess(o.dog)
    THEN IF _is_security_challenge(o.dog) /\ ApiSuccess(o.dog_js)
         THEN _format_api_result(url, o.dog_js, "scraping_dog_js")
         ELSE _format_api_result(url, o.dog, "scraping_dog")
    ELSE IF ApiSuccess(o.bright)
         THEN _format_api_result(url, o.bright, "bright_data")
         ELSE Record(url, NoPage, FALSE, "All API services failed", "api_failed")

\* the result crawl_via_apis appends for urls[i]
crawl_via_apis_one(url, o) ==
    IF o.outer = "timeout" THEN Record(url, NoPage, FALSE, "Timeout", "api_timeout")
    ELSE IF o.outer = "exception" THEN Record(url, NoPage, FALSE, "api exception", "api_error")
    ELSE _crawl_single_url_via_apis(url, o)

\* the records each level can produce for one URL
RequestResults == [u \in InputUrls |-> {fetch_one(u, o) : o \in RequestOutcomes}]

BrowserResults == [u \in InputUrls |-> {crawl4ai_one(u, o) : o \in BrowserOutcomes}]

ApiResults == [u \in InputUrls |-> {crawl_via_apis_one(u, o) : o \in ApiOutcomes}]

LevelResultsFor(level, url) ==
    IF level = "requests" THEN RequestResults[url]
    ELSE IF level = "crawl4ai" THEN BrowserResults[url]
    ELSE ApiResults[url]

\* the lists of results a level can return for the list `try`:
\* _fetch_urls_via_requests / _crawl_with_crawl4ai / crawl_via_apis
LevelResults(level, try) ==
    LET all == UNION {LevelResultsFor(level, u) : u \in InputUrls}
        normal == {lr \in [DOMAIN try -> all] :
                      \A i \in DOMAIN try : lr[i] \in LevelResultsFor(level, try[i])}
        \* _crawl_with_crawl4ai: an exception after k results fails the rest
        broken == IF level # "crawl4ai" THEN {}
                  ELSE {[i \in DOMAIN try |->
                            IF i <= k THEN lr[i]
                            ELSE Record(try[i], NoPage, FALSE, "batch exception", "crawl4ai")] :
                         lr \in normal, k \in 0..(Len(try) - 1)}
    IN  normal \cup broken

\* url_to_level_result = {r["url"]: r for r in level_results}: the last wins
url_to_level_result(level_results) ==
    [u \in {level_results[i].url : i \in DOMAIN level_results} |->
        level_results[CHOOSE i \in DOMAIN level_results :
                         /\ level_results[i].url = u
                         /\ \A j \in DOMAIN level_results :
                                level_results[j].url = u => j <= i]]

\* variant: results paired with the level's results by position
UpdateResultsByPosition(res, level_results) ==
    [i \in DOMAIN res |->
        IF i \in DOMAIN level_results
        THEN IF level_results[i].success
             THEN level_results[i]
             ELSE [res[i] EXCEPT !.error = level_results[i].error]
        ELSE res[i]]

\* variant: a failed level leaves the record as it is
WithErrorKept(result, level_result) == result

\* results[i]["error"] = level_result.get("error", ...)
WithError(result, level_result) == [result EXCEPT !.error = level_result.error]

\* the loop `for i, result in enumerate(results)` of crawl_pages
UpdateResults(res, level_results) ==
    LET m == url_to_level_result(level_results)
    IN  [i \in DOMAIN res |->
            IF res[i].url \in DOMAIN m
            THEN IF m[res[i].url].success
                 THEN m[res[i].url]
                 ELSE WithError(res[i], m[res[i].url])
            ELSE res[i]]

\* successful_urls after that loop
SuccessfulUrls(res, level_results) ==
    LET m == url_to_level_result(level_results)
    IN  {res[i].url : i \in {k \in DOMAIN res :
                                res[k].url \in DOMAIN m /\ m[res[k].url].success}}

\* variant: the filter inverted, only the successful URLs carried forward
NextUrlsToTryInverted(try, successful_urls) ==
    LET Keep(u) == u \in successful_urls IN SelectSeq(try, Keep)

\* urls_to_try = [url for url in urls_to_try if url not in successful_urls]
NextUrlsToTry(try, successful_urls) ==
    LET Keep(u) == u \notin successful_urls IN SelectSeq(try, Keep)

\* variant: only the successful records are returned
_finalize_results_successful(res) ==
    LET Ok(r) == r.success IN SelectSeq(res, Ok)

\* CrawlAdapter._finalize_results: the list it returns
_finalize_results(res) ==
    IF Len(res) > 1 THEN aggregate_and_dedup(res, similarity_threshold) ELSE res

\* an input URL was handed to `level`; ok: the level's own result for it
\* carried admissible content
LogEntries(level, try, level_results) ==
    [i \in DOMAIN try |-> [level |-> level, url |-> try[i], ok |-> level_results[i].success]]

CrawlInit ==
    /\ DedupIdle /\ RpsIdle /\ TpmIdle /\ BudgetIdle /\ TierIdle
    /\ urls \in SeqsUpTo(InputUrls, MaxUrls)
    /\ use_browser \in BOOLEAN
    /\ pc = "idle"
    /\ level_idx = 0
    /\ results = <<>>
    /\ urls_to_try = <<>>
    /\ fetch_log = <<>>
    /\ returned = <<>>
    /\ failed_urls = {}

\* crawl_pages returns _finalize_results(results)
Finish(res) ==
    LET final == _finalize_results(res)
    IN  /\ pc' = "done"
        /\ returned' = final
        /\ failed_urls' = {r.url : r \in {x \in Range(final) : ~x.success}}

\* crawl_pages up to the level loop
CrawlBegin ==
    /\ pc = "idle"
    /\ IF urls = <<>>
       THEN /\ pc' = "done"
            /\ returned' = <<>>
            /\ UNCHANGED <<results, urls_to_try, level_idx, failed_urls>>
       ELSE /\ results' = [i \in DOMAIN urls |->
                              Record(urls[i], NoPage, FALSE, "Not yet attempted", "none")]
            /\ urls_to_try' = urls
            /\ level_idx' = 1
            /\ pc' = "levels"
            /\ UNCHANGED <<returned, failed_urls>>
    /\ UNCHANGED <<urls, use_browser, fetch_log, tierVars>>
    /\ UNCHANGED <<dedupVars, rpsVars, tpmVars, budgetVars>>

\* one iteration of `for level_idx, level in enumerate(self.crawl_levels)`,
\* and the return when the loop ends with it
RunLevel(level) ==
    /\ pc = "levels"
    /\ level_idx <= Len(crawl_levels(use_browser))
    /\ crawl_levels(use_browser)[level_idx] = level
    /\ urls_to_try # <<>>
    /\ \E level_results \in LevelResults(level, urls_to_try) :
          LET res  == UpdateResults(results, level_results)
              next == NextUrlsToTry(urls_to_try, SuccessfulUrls(results, level_results))
          IN  /\ results' = res
              /\ urls_to_try' = next
              /\ level_idx' = level_idx + 1
              /\ fetch_log' = fetch_log \o LogEntries(level_idx, urls_to_try, level_results)
              /\ IF level_idx + 1 > Len(crawl_levels(use_browser)) \/ next = <<>>
                 THEN Finish(res)
                 ELSE UNCHANGED <<pc, returned, failed_urls>>
    /\ UNCHANGED <<urls, use_browser, tierVars>>
    /\ UNCHANGED <<dedupVars, rpsVars, tpmVars, budgetVars>>

RequestsLevel == RunLevel("requests")

Crawl4aiLevel == RunLevel("crawl4ai")

ApisLevel == RunLevel("apis")

CrawlNext == CrawlBegin \/ RequestsLevel \/ Crawl4aiLevel \/ ApisLevel

SpecCrawl == CrawlInit /\ [][CrawlNext]_vars

\* ------------------------------------------------------------------------
\* Properties of crawl_pages
\* ------------------------------------------------------------------------
Count(s, x) == Cardinality({i \in DOMAIN s : s[i] = x})

UrlsOf(recs) == [i \in DOMAIN recs |-> recs[i].url]

\* C1: crawl_pages returns exactly one record per input URL: the multiset
\* of the returned records' URLs is the multiset of the input URLs, and each
\* record is marked success or failure.
C1_OneRecordPerUrl ==
    pc = "done" =>
        /\ Len(returned) = Len(urls)
        /\ \A u \in FinalUrls : Count(UrlsOf(returned), u) = Count(urls, u)
        /\ \A i \in DOMAIN returned : returned[i].success \in BOOLEAN

\* a finished crawl of a list holding the same URL twice, in which a
\* tier-1 fetch failed and a later level brought a success
C1_Witness ==
    /\ pc = "done"
    /\ Len(urls) = 2
    /\ urls[1] = urls[2]
    /\ \E i \in DOMAIN returned : returned[i].success
    /\ \E k \in DOMAIN fetch_log : fetch_log[k].level = 1 /\ ~fetch_log[k].ok

\* C8: a URL whose tier-1 result was not admissible and that ends as a
\* failed record was handed to the next level after its tier-1 attempt.
C8_EscalatedBeforeFailed ==
    pc = "done" =>
        \A k \in DOMAIN fetch_log :
            (fetch_log[k].level = 1 /\ ~fetch_log[k].ok) =>
                \A i \in DOMAIN returned :
                    (returned[i].url = fetch_log[k].url /\ ~returned[i].success) =>
                        \E k2 \in DOMAIN fetch_log :
                            /\ k2 > k
                            /\ fetch_log[k2].url = fetch_log[k].url
                            /\ fetch_log[k2].level = 2

\* a finished crawl with a URL that failed tier 1, was tried by tier 2 and
\* is returned as failed
C8_Witness ==
    /\ pc = "done"
    /\ \E k, k2 \in DOMAIN fetch_log, i \in DOMAIN returned :
          /\ fetch_log[k].level = 1 /\ ~fetch_log[k].ok
          /\ fetch_log[k2].level = 2 /\ fetch_log[k2].url = fetch_log[k].url
          /\ returned[i].url = fetch_log[k].url /\ ~returned[i].success

\* C9: every record returned with success = true carries content that the
\* admissibility classifier accepts (neither empty nor blocked).
C9_SuccessIsAdmissible ==
    pc = "done" =>
        \A i \in DOMAIN returned :
            returned[i].success => ~_looks_blocked_or_empty(returned[i].page)

\* C10: a URL whose fetch at some level gave admissible content is not
\* handed to any later level.
C10_NoRefetchAfterOk ==
    \A k, k2 \in DOMAIN fetch_log :
        (fetch_log[k].ok /\ fetch_log[k2].url = fetch_log[k].url) =>
            fetch_log[k2].level <= fetch_log[k].level

\* ------------------------------------------------------------------------
\* deduplicate_paragraphs on bounded texts
\* ------------------------------------------------------------------------
MaxChunks == 3

\* fingerprints 9 bits apart: neighbours are near-duplicates (similarity
\* 55/64 >= 0.85), the two ends are not (46/64 < 0.85)
ParaFps == {0, 9, 18}

\* below and above min_paragraph_length, and two lengths to tell the longer
ParaLens == {40, 60, 80}

Paragraphs == {Para(fp, len) : fp \in ParaFps, len \in ParaLens}

Chunks == [p : Paragraphs, pad : BOOLEAN] \cup {Chunk(Blank)}

Texts == SeqsUpTo(Chunks, MaxChunks)

DedupInit ==
    /\ CrawlIdle /\ RpsIdle /\ TpmIdle /\ BudgetIdle
    /\ text \in Texts
    /\ out1 = <<>>
    /\ out2 = <<>>
    /\ dpc = "input"
    /\ PagesIdle

\* content_utils.deduplicate_paragraphs(text) with the default arguments
DedupOnce ==
    /\ dpc = "input"
    /\ out1' = deduplicate_paragraphs(text, similarity_threshold, min_paragraph_length)
    /\ dpc' = "once"
    /\ UNCHANGED <<text, out2, pagesVars>>
    /\ UNCHANGED <<crawlVars, rpsVars, tpmVars, budgetVars>>

\* ... applied to its own output
DedupTwice ==
    /\ dpc = "once"
    /\ out2' = deduplicate_paragraphs(out1, similarity_threshold, min_paragraph_length)
    /\ dpc' = "twice"
    /\ UNCHANGED <<text, out1, pagesVars>>
    /\ UNCHANGED <<crawlVars, rpsVars, tpmVars, budgetVars>>

DedupNext == DedupOnce \/ DedupTwice

SpecDedup == DedupInit /\ [][DedupNext]_vars

\* C7: deduplicate_paragraphs is idempotent: applied to its own output it
\* returns that output unchanged.
C7_DedupIdempotent == dpc = "twice" => out2 = out1

\* ------------------------------------------------------------------------
\* RedisFixedWindowRPS.acquire, called concurrently on one shared store
\* ------------------------------------------------------------------------
NCallers == 2

MaxRps == 2

MaxClock == 2000

\* the resolution of the wall clock, in milliseconds
TickMs == 200

window_ms == 1500

Callers == 1..NCallers

\* int(time.time() * 1500) at wall clock t (milliseconds)
NowMs(t) == (t * window_ms) \div 1000

BucketOf(now_ms) == now_ms \div window_ms

Buckets == 0..BucketOf(NowMs(MaxClock))

NoKey == [val |-> 0, expire_at |-> -1, life |-> 0]

IdleCaller ==
    [pc |-> "idle", now_ms |-> 0, bucket |-> 0, val |-> 0, life |-> 0, wake |-> 0,
     raised |-> FALSE]

\* INCR: creates a missing key at 1 without a time to live, else adds one
Incremented(k, lives) ==
    IF k.val = 0 THEN [val |-> 1, expire_at |-> -1, life |-> lives + 1]
    ELSE [k EXCEPT !.val = k.val + 1]

\* PEXPIRE key window_ms + 100 at wall clock t; a missing key is left missing
Pexpired(k, t) ==
    IF k.val = 0 THEN k
    ELSE [k EXCEPT !.expire_at = t + window_ms + 100]

\* the store drops the keys whose time to live has run out at wall clock t
Expired(keys, t) ==
    [b \in DOMAIN keys |->
        IF keys[b].expire_at # -1 /\ keys[b].expire_at <= t THEN NoKey ELSE keys[b]]

AllowedBelow(val, r) == val < r

\* acquire: "if val <= self.rps"
Allowed(val, r) == val <= r

\* asyncio.sleep(wait_ms / 1500.0) started at wall clock t ends at
WakeAt(now_ms, t) == t + ((window_ms - (now_ms % window_ms)) * 1000) \div window_ms

\* the top of the loop, up to the await of INCR
LoopTop(c) ==
    callers' = [callers EXCEPT ![c] =
        [@ EXCEPT !.pc = "incr", !.now_ms = NowMs(rclock),
                  !.bucket = BucketOf(NowMs(rclock)),
                  !.val = 0, !.life = 0, !.wake = 0]]

\* from the answer of the store for val to the return or to the sleep
AfterStore(c, val, life) ==
    IF Allowed(val, rps)
    THEN /\ callers' = [callers EXCEPT ![c] =
                [IdleCaller EXCEPT !.pc = "admitted", !.raised = callers[c].raised]]
         /\ admitted' = admitted \cup
                {[caller |-> c, bucket |-> callers[c].bucket, life |-> life]}
    ELSE /\ callers' = [callers EXCEPT ![c] =
                [@ EXCEPT !.pc = "sleep", !.val = val, !.life = life,
                          !.wake = WakeAt(callers[c].now_ms, rclock)]]
         /\ UNCHANGED admitted

RpsInit ==
    /\ CrawlIdle /\ DedupIdle /\ TpmIdle /\ BudgetIdle
    /\ rps \in 1..MaxRps
    /\ rclock = 0
    /\ rkeys = [b \in Buckets |-> NoKey]
    /\ rlives = [b \in Buckets |-> 0]
    /\ callers = [c \in Callers |-> IdleCaller]
    /\ admitted = {}

Acquire(c) ==
    /\ callers[c].pc = "idle"
    /\ LoopTop(c)
    /\ UNCHANGED <<rps, rclock, rkeys, rlives, admitted>>
    /\ UNCHANGED <<crawlVars, dedupVars, tpmVars, budgetVars>>

Incr(c) ==
    /\ callers[c].pc = "incr"
    /\ LET b == callers[c].bucket
           k == Incremented(rkeys[b], rlives[b])
       IN /\ rkeys' = [rkeys EXCEPT ![b] = k]
          /\ rlives' = [rlives EXCEPT ![b] = k.life]
          /\ IF k.val = 1
             THEN /\ callers' = [callers EXCEPT ![c] =
                        [@ EXCEPT !.pc = "pexpire", !.val = 1, !.life = k.life]]
                  /\ UNCHANGED admitted
             ELSE AfterStore(c, k.val, k.life)
    /\ UNCHANGED <<rps, rclock>>
    /\ UNCHANGED <<crawlVars, dedupVars, tpmVars, budgetVars>>

PexpireStep(c) ==
    /\ callers[c].pc = "pexpire"
    /\ rkeys' = [rkeys EXCEPT ![callers[c].bucket] = Pexpired(@, rclock)]
    /\ AfterStore(c, callers[c].val, callers[c].life)
    /\ UNCHANGED <<rps, rclock, rlives>>
    /\ UNCHANGED <<crawlVars, dedupVars, tpmVars, budgetVars>>

Wake(c) ==
    /\ callers[c].pc = "sleep"
    /\ rclock >= callers[c].wake
    /\ BucketOf(NowMs(rclock)) \in Buckets
    /\ LoopTop(c)
    /\ UNCHANGED <<rps, rclock, rkeys, rlives, admitted>>
    /\ UNCHANGED <<crawlVars, dedupVars, tpmVars, budgetVars>>

RpsTick ==
    /\ rclock + TickMs <= MaxClock
    /\ rclock' = rclock + TickMs
    /\ rkeys' = Expired(rkeys, rclock')
    /\ UNCHANGED <<rps, rlives, callers, admitted>>
    /\ UNCHANGED <<crawlVars, dedupVars, tpmVars, budgetVars>>

RpsNext ==
    \/ \E c \in Callers : Acquire(c)
    \/ \E c \in Callers : Incr(c)
    \/ \E c \in Callers : PexpireStep(c)
    \/ \E c \in Callers : Wake(c)
    \/ RpsTick

SpecRPS == RpsInit /\ [][RpsNext]_vars

AdmittedUnderKey(b) == {a \in admitted : a.bucket = b}

AdmittedInLife(b, l) == {a \in admitted : a.bucket = b /\ a.life = l}

\* C2: across the concurrent callers of acquire, at most rps callers are
\* admitted under any single window key, however their increments interleave.
C2_AtMostRpsPerKey ==
    \A b \in DOMAIN rkeys : Cardinality(AdmittedUnderKey(b)) <= rps

\* within one lifetime of a window key, from the increment that creates the
\* key to its expiry, the increments get distinct values and at most rps
\* of them are admitted
AtMostRpsPerKeyLife ==
    \A b \in DOMAIN rkeys : \A l \in 1..rlives[b] :
        Cardinality(AdmittedInLife(b, l)) <= rps

\* rps callers were admitted in one lifetime of a key and a further caller,
\* whose increment landed in the same lifetime, was sent to sleep
RefusedInKeyLife ==
    \E c \in DOMAIN callers :
        /\ callers[c].pc = "sleep"
        /\ callers[c].val > rps
        /\ Cardinality(AdmittedInLife(callers[c].bucket, callers[c].life)) = rps

\* ------------------------------------------------------------------------
\* RedisRateLimiter.reserve_tokens, called by concurrent worker processes on
\* one shared sorted set; every command sent to the store is one step
\* ------------------------------------------------------------------------
MaxLimit == 2

MaxTpmClock == 4

\* the resolution of the wall clock, in seconds
SecondsPerUnit == 30

window_seconds == 60

WindowUnits == window_seconds \div SecondsPerUnit

\* the max_wait arguments of the calls, in seconds
MaxWaits == {30, 60}

\* the worker processes sharing the limiter
Workers == {"w1", "w2"}

RECURSIVE SumTokens(_)
SumTokens(members) ==
    IF members = {} THEN 0
    ELSE LET e == CHOOSE x \in members : TRUE
         IN e.tokens + SumTokens(members \ {e})

\* ZREMRANGEBYSCORE key 0 (now - window_seconds)
_cleanup_expired(members, now) ==
    {e \in members : e.score > now - WindowUnits}

\* ZRANGEBYSCORE key (now - window_seconds) now, and the sum of the counts
\* in the member names
get_current_usage(members, now) ==
    SumTokens({e \in members : e.score >= now - WindowUnits /\ e.score <= now})

\* a sorted set without members is no key of the store: it holds no time to
\* live, and EXPIRE on it does nothing
Stored(z) == IF z.members = {} THEN [members |-> {}, expire_at |-> -1] ELSE z

\* min(5.0, 0.5 * retry_count), in half seconds
wait_time(retry_count) == Min(5 * 2, retry_count)

\* asyncio.sleep(wait_time) started at wall clock now lasts at least
\* wait_time: it ends at a later point of the clock
SleepEnd(now, retry_count) ==
    now + (wait_time(retry_count) + 2 * SecondsPerUnit - 1) \div (2 * SecondsPerUnit)

HasSpaceToSpare(available, token_count) == available > token_count

\* reserve_tokens: "if available >= token_count"
HasSpace(available, token_count) == available >= token_count

TimedOutNever(elapsed, max_wait) == FALSE

\* reserve_tokens: "if elapsed > max_wait"
TimedOut(elapsed, max_wait) == elapsed > max_wait

IdleWorker ==
    [pc |-> "idle", token_count |-> 0, max_wait |-> 0, start_time |-> 0,
     retry_count |-> 0, wake |-> 0, result |-> "none", raised |-> "none"]

TpmInit ==
    /\ CrawlIdle /\ DedupIdle /\ RpsIdle /\ BudgetIdle
    /\ limit \in 1..MaxLimit
    /\ tclock = 0
    /\ zset = [members |-> {}, expire_at |-> -1]
    /\ workers = [w \in Workers |-> IdleWorker]

\* reserve_tokens up to the loop: a request larger than the limit is allowed
\* at once and leaves no entry
ReserveTokens(w, token_count, max_wait) ==
    /\ workers[w].pc = "idle"
    /\ workers' = [workers EXCEPT ![w] =
          IF token_count > limit
          THEN [@ EXCEPT !.pc = "done", !.result = "allowed"]
          ELSE [@ EXCEPT !.pc = "check", !.token_count = token_count,
                         !.max_wait = max_wait \div SecondsPerUnit,
                         !.start_time = tclock, !.retry_count = 0,
                         !.result = "none"]]
    /\ UNCHANGED <<limit, tclock, zset>>
    /\ UNCHANGED <<crawlVars, dedupVars, rpsVars, budgetVars>>

\* the top of the loop: the timeout check, then the clean-up command of
\* get_current_usage
CheckStep(w) ==
    /\ workers[w].pc = "check"
    /\ zset' = Stored([zset EXCEPT !.members = _cleanup_expired(@, tclock)])
    /\ workers' = [workers EXCEPT ![w] =
          IF TimedOut(tclock - workers[w].start_time, workers[w].max_wait)
          THEN [IdleWorker EXCEPT !.pc = "done", !.result = "timeout",
                                  !.raised = workers[w].raised]
          ELSE [@ EXCEPT !.pc = "read"]]
    /\ UNCHANGED <<limit, tclock>>
    /\ UNCHANGED <<crawlVars, dedupVars, rpsVars, budgetVars>>

\* the range query of get_current_usage and the decision taken on its answer
ReadStep(w) ==
    /\ workers[w].pc = "read"
    /\ LET current_usage == get_current_usage(zset.members, tclock)
           available == limit - current_usage
       IN workers' = [workers EXCEPT ![w] =
              IF HasSpace(available, workers[w].token_count)
              THEN [@ EXCEPT !.pc = "zadd"]
              ELSE [@ EXCEPT !.pc = "sleep", !.retry_count = @ + 1,
                             !.wake = SleepEnd(tclock, workers[w].retry_count + 1)]]
    /\ UNCHANGED <<limit, tclock, zset>>
    /\ UNCHANGED <<crawlVars, dedupVars, rpsVars, budgetVars>>

\* ZADD key {request_id:token_count: now}
ZaddStep(w) ==
    /\ workers[w].pc = "zadd"
    /\ zset' = [zset EXCEPT !.members = @ \cup
          {[id |-> w, score |-> tclock,
            tokens |-> workers[w].token_count]}]
    /\ workers' = [workers EXCEPT ![w] = [@ EXCEPT !.pc = "expire"]]
    /\ UNCHANGED <<limit, tclock>>
    /\ UNCHANGED <<crawlVars, dedupVars, rpsVars, budgetVars>>

\* EXPIRE key (window_seconds * 2), and the return of True
ExpireStep(w) ==
    /\ workers[w].pc = "expire"
    /\ zset' = Stored([zset EXCEPT !.expire_at = tclock + 2 * WindowUnits])
    /\ workers' = [workers EXCEPT ![w] =
          [IdleWorker EXCEPT !.pc = "done", !.result = "reserved",
                             !.raised = workers[w].raised]]
    /\ UNCHANGED <<limit, tclock>>
    /\ UNCHANGED <<crawlVars, dedupVars, rpsVars, budgetVars>>

\* the end of asyncio.sleep(wait_time)
WakeStep(w) ==
    /\ workers[w].pc = "sleep"
    /\ tclock >= workers[w].wake
    /\ workers' = [workers EXCEPT ![w] = [@ EXCEPT !.pc = "check", !.wake = 0]]
    /\ UNCHANGED <<limit, tclock, zset>>
    /\ UNCHANGED <<crawlVars, dedupVars, rpsVars, budgetVars>>

\* time passes; the store drops the whole key when its time to live runs out
TpmTick ==
    /\ tclock + 1 <= MaxTpmClock
    /\ tclock' = tclock + 1
    /\ zset' = IF zset.expire_at # -1 /\ zset.expire_at <= tclock'
               THEN [members |-> {}, expire_at |-> -1]
               ELSE zset
    /\ UNCHANGED <<limit, workers>>
    /\ UNCHANGED <<crawlVars, dedupVars, rpsVars, budgetVars>>

TpmNext ==
    \/ \E w \in Workers : \E token_count \in 1..(limit + 1) : \E max_wait \in MaxWaits :
          ReserveTokens(w, token_count, max_wait)
    \/ \E w \in Workers : CheckStep(w)
    \/ \E w \in Workers : ReadStep(w)
    \/ \E w \in Workers : ZaddStep(w)
    \/ \E w \in Workers : ExpireStep(w)
    \/ \E w \in Workers : WakeStep(w)
    \/ TpmTick

SpecTPM == TpmInit /\ [][TpmNext]_vars

\* C3: at every moment the costs of the granted reservations whose timestamps
\* lie within the trailing 60 seconds sum to at most the limit, for every
\* interleaving of the workers' usage checks and reservation writes.
C3_WindowSumWithinLimit ==
    limit > 0 => get_current_usage(zset.members, tclock) <= limit

\* ------------------------------------------------------------------------
\* The dispatch loop of ReactGraph: the agent's tool calls pass through the
\* post-model hook and are then executed by the tool node
\* ------------------------------------------------------------------------
MaxSteps == 3

MaxArgs == 2

MaxBudget == 2

EmptyDict == [k \in {} |-> 0]

\* dict.get(key, default)
Get(dict, key, default) == IF key \in DOMAIN dict THEN dict[key] ELSE default

\* the tools the agent may name in a call
DispatchTools == {"serp", "crawl", "pdf", "finalize"}

\* the number of queries or URLs of a call: only serp and crawl take a list
ArgCounts(tool) == IF tool \in {"serp", "crawl"} THEN 0..MaxArgs ELSE {1}

\* the plans' tools_budgeting: per-tool allowances, crawl possibly absent
ToolsBudgetings ==
    {[crawl |-> c, serp |-> q] : c \in 0..MaxBudget, q \in 0..1} \cup {[serp |-> 1]}

\* ReactGraph.initialize_state, then invoke's copy of tools_budgeting
initialize_state(p) ==
    [_thread_id |-> "none", loop_iteration |-> 0, usage |-> EmptyDict,
     budget_remaining |-> p.tools_budgeting, should_continue |-> TRUE,
     termination_reason |-> "none", finalize_called |-> FALSE, at |-> "agent"]

\* posthook: "len(queries) if queries else 1", "len(urls) if urls else 1", 1
usage_count(tool_name, n) ==
    IF tool_name \in {"serp", "crawl"} THEN (IF n > 0 THEN n ELSE 1) ELSE 1

\* posthook: the decrement of the allowance of the tool, clamped at 0
Decremented(remaining, tool_name, n) ==
    IF tool_name \in DOMAIN remaining
    THEN [remaining EXCEPT ![tool_name] = Max(0, @ - usage_count(tool_name, n))]
    ELSE remaining

DispatchInit ==
    /\ CrawlIdle /\ DedupIdle /\ RpsIdle /\ TpmIdle
    /\ plan \in [tools_budgeting : ToolsBudgetings, budgets : {EmptyDict}]
    /\ budget_remaining = plan.tools_budgeting
    /\ store = EmptyDict
    /\ sstate = initialize_state(plan)
    /\ executed = <<>>
    /\ tool_results = <<>>

\* the model answers with one tool call: the post-model hook charges the
\* allowance and looks for finalize, and the tool node executes the call
AgentCall(tool_name, n) ==
    /\ sstate.at = "agent"
    /\ sstate.should_continue
    /\ Len(executed) < MaxSteps
    /\ budget_remaining' = Decremented(budget_remaining, tool_name, n)
    /\ sstate' =
          IF tool_name = "finalize"
          THEN [sstate EXCEPT !.should_continue = FALSE,
                              !.termination_reason = "finalize_requested",
                              !.finalize_called = TRUE,
                              !.budget_remaining = budget_remaining']
          ELSE [sstate EXCEPT !.budget_remaining = budget_remaining']
    /\ executed' = Append(executed,
          [tool |-> tool_name, n |-> n, before |-> Get(budget_remaining, tool_name, -1)])
    /\ UNCHANGED <<plan, store, tool_results>>
    /\ UNCHANGED <<crawlVars, dedupVars, rpsVars, tpmVars>>

\* the model answers without a tool call: the hook reports the allowances
\* and the loop ends
AgentAnswer ==
    /\ sstate.at = "agent"
    /\ sstate' = [sstate EXCEPT !.budget_remaining = budget_remaining, !.at = "end"]
    /\ UNCHANGED <<plan, budget_remaining, store, executed, tool_results>>
    /\ UNCHANGED <<crawlVars, dedupVars, rpsVars, tpmVars>>

DispatchNext ==
    \/ \E tool_name \in DispatchTools : \E n \in ArgCounts(tool_name) :
          AgentCall(tool_name, n)
    \/ AgentAnswer

SpecDispatch == DispatchInit /\ [][DispatchNext]_vars

IsCrawlOfOne(call) == call.tool = "crawl" /\ call.n = 1

\* C4: with a budget of 2 pages, two sequential crawl calls of one URL each
\* are executed and a third crawl call of one URL is refused, the session
\* being exhausted.
C4_ThirdCrawlRefused ==
    ( /\ "crawl" \in DOMAIN plan.tools_budgeting
      /\ plan.tools_budgeting["crawl"] = 2
      /\ Len(executed) >= 3
      /\ IsCrawlOfOne(executed[1])
      /\ IsCrawlOfOne(executed[2]) )
    => ~IsCrawlOfOne(executed[3])

\* ------------------------------------------------------------------------
\* BudgetManager and node_controller: the usage of one session charged with
\* the costs of its tool calls and checked by the controller
\* ------------------------------------------------------------------------
MaxUsage == 3

\* the fields of Budget and of Usage
Resources ==
    {"queries", "pages", "seconds", "evidence_tokens", "ai_overviews", "pdf", "google_ads"}

\* Usage()
ZeroUsage == [r \in Resources |-> 0]

\* the names the charged calls carry; "translate" is not in TOOL_REGISTRY
ChargedTools ==
    {"pdf", "google_ads", "serp", "crawl", "extract_links", "ai_overview",
     "search_linkedin_posts", "translate"}

\* the plans' budgets: none given, or small ceilings
BudgetPlans ==
    {EmptyDict,
     [max_pages |-> 2],
     [max_seconds |-> 4],
     [max_queries |-> 1, max_pages |-> 1, max_pdf |-> 1]}

\* an amount of a cost dict: an integer, or the text of an expression
Amount(n) == [int |-> TRUE, n |-> n]

Expression == [int |-> FALSE, n |-> 0]

\* tools.get_tool_cost: the budget_cost of the registry in the order of its
\* keys, to which a crawl adds pages and seconds
get_tool_cost(tool_name, n) ==
    CASE tool_name = "pdf" -> <<<<"pdf", Amount(1)>>>>
      [] tool_name = "google_ads" -> <<<<"google_ads", Amount(1)>>>>
      [] tool_name = "serp" -> <<<<"queries", Expression>>>>
      [] tool_name = "crawl" ->
            <<<<"urls", Expression>>, <<"pages", Amount(n)>>, <<"seconds", Amount(2 * n)>>>>
      [] tool_name = "extract_links" -> <<<<"urls", Amount(1)>>>>
      [] tool_name = "ai_overview" -> <<<<"ai_overviews", Amount(1)>>>>
      [] tool_name = "search_linkedin_posts" -> <<>>
      [] OTHER ->
            <<<<"queries", Amount(0)>>, <<"pages", Amount(0)>>, <<"seconds", Amount(0)>>>>

\* BudgetManager.inc: the deltas are added in order to the attributes Usage
\* has; int() of a text that is not a number raises, and the loop stops there
RECURSIVE IncLoop(_, _, _)
IncLoop(usage, deltas, i) ==
    IF i > Len(deltas) THEN usage
    ELSE LET k == deltas[i][1]
             v == deltas[i][2]
         IN IF k \notin Resources THEN IncLoop(usage, deltas, i + 1)
            ELSE IF ~v.int THEN usage
            ELSE IncLoop([usage EXCEPT ![k] = @ + v.n], deltas, i + 1)

inc(rec, deltas) == [rec EXCEPT !.usage = IncLoop(rec.usage, deltas, 1)]

\* BudgetManager.set_budget
set_budget(st, thread_id, budget) ==
    [t \in DOMAIN st \cup {thread_id} |->
        IF t = thread_id THEN [budget |-> budget, usage |-> ZeroUsage] ELSE st[t]]

\* BudgetManager.check_limits raises "Budget exhausted"
check_limits(rec) ==
    \/ rec.usage["queries"] >= rec.budget["queries"]
    \/ rec.usage["pages"] >= rec.budget["pages"]
    \/ rec.usage["evidence_tokens"] >= rec.budget["evidence_tokens"]
    \/ rec.usage["ai_overviews"] >= rec.budget["ai_overviews"]
    \/ rec.usage["pdf"] >= rec.budget["pdf"]
    \/ rec.usage["google_ads"] >= rec.budget["google_ads"]

\* node_controller: the Budget built from the budgets of the state
BudgetOf(budgets) ==
    [queries |-> Get(budgets, "max_queries", 3),
     pages |-> Get(budgets, "max_pages", 6),
     seconds |-> Get(budgets, "max_seconds", 60),
     evidence_tokens |-> Get(budgets, "max_evidence_tokens", 3000),
     ai_overviews |-> Get(budgets, "max_ai_overviews", 1),
     pdf |-> Get(budgets, "max_pdf", 2),
     google_ads |-> Get(budgets, "max_google_ads", 1)]

\* node_controller: budget minus usage, under the max_ names
RemainingOf(rec) ==
    [max_queries |-> rec.budget["queries"] - rec.usage["queries"],
     max_pages |-> rec.budget["pages"] - rec.usage["pages"],
     max_seconds |-> rec.budget["seconds"] - rec.usage["seconds"],
     max_evidence_tokens |-> rec.budget["evidence_tokens"] - rec.usage["evidence_tokens"],
     max_ai_overviews |-> rec.budget["ai_overviews"] - rec.usage["ai_overviews"],
     max_pdf |-> rec.budget["pdf"] - rec.usage["pdf"],
     max_google_ads |-> rec.budget["google_ads"] - rec.usage["google_ads"]]

\* node_controller: the budget_exhausted condition
budget_exhausted(remaining) ==
    \/ Get(remaining, "max_queries", 0) <= 0
    \/ Get(remaining, "max_pages", 0) <= 0
    \/ Get(remaining, "max_evidence_tokens", 0) <= 0
    \/ Get(remaining, "max_pdf", 0) <= 0

\* node_controller: "if not thread_id", the id made from the domain and a uuid
ThreadIdOf(state) == IF state._thread_id = "none" THEN "unknown_1" ELSE state._thread_id

RegistersAlways(st, thread_id) == TRUE

\* node_controller: "if not BudgetManager.safe_get(thread_id)"
Registers(st, thread_id) == thread_id \notin DOMAIN st

TerminationOfBudgetFirst(state, remaining) ==
    IF budget_exhausted(remaining) THEN "budget_exhausted"
    ELSE IF state.finalize_called THEN "agent_finalized"
    ELSE IF state.loop_iteration >= 10 THEN "max_iterations"
    ELSE "none"

\* node_controller: the order of the termination conditions
TerminationOf(state, remaining) ==
    IF state.finalize_called THEN "agent_finalized"
    ELSE IF budget_exhausted(remaining) THEN "budget_exhausted"
    ELSE IF state.loop_iteration >= 10 THEN "max_iterations"
    ELSE "none"

BudgetInit ==
    /\ CrawlIdle /\ DedupIdle /\ RpsIdle /\ TpmIdle
    /\ plan \in [tools_budgeting : {EmptyDict}, budgets : BudgetPlans]
    /\ budget_remaining = EmptyDict
    /\ store = EmptyDict
    /\ \E li \in {0, 10} : sstate = [initialize_state(plan) EXCEPT !.loop_iteration = li]
    /\ executed = <<>>
    /\ tool_results = <<>>

\* node_controller(state), its updates merged into the state
Controller ==
    /\ LET thread_id == ThreadIdOf(sstate)
           st == IF Registers(store, thread_id)
                 THEN set_budget(store, thread_id, BudgetOf(plan.budgets))
                 ELSE store
           rec == st[thread_id]
           remaining == RemainingOf(rec)
           reason == TerminationOf(sstate, remaining)
       IN /\ store' = st
          /\ sstate' = [sstate EXCEPT !._thread_id = thread_id,
                                      !.usage = rec.usage,
                                      !.budget_remaining = remaining,
                                      !.should_continue = (reason = "none"),
                                      !.termination_reason = reason]
    /\ UNCHANGED <<plan, budget_remaining, executed, tool_results>>
    /\ UNCHANGED <<crawlVars, dedupVars, rpsVars, tpmVars>>

\* BudgetManager.inc(thread_id, **get_tool_cost(tool_name, tool_args)) for a
\* call the session made; a thread that was never registered raises KeyError
Charge(tool_name, n) ==
    /\ sstate.should_continue
    /\ sstate._thread_id \in DOMAIN store
    /\ LET rec == inc(store[sstate._thread_id], get_tool_cost(tool_name, n))
       IN /\ rec.usage["pages"] + rec.usage["pdf"] + rec.usage["google_ads"]
                + rec.usage["ai_overviews"] <= MaxUsage
          /\ store' = [store EXCEPT ![sstate._thread_id] = rec]
    /\ UNCHANGED <<plan, budget_remaining, sstate, executed, tool_results>>
    /\ UNCHANGED <<crawlVars, dedupVars, rpsVars, tpmVars>>

\* the agent's message carries a call of finalize
FinalizeCall ==
    /\ sstate.should_continue
    /\ ~sstate.finalize_called
    /\ sstate' = [sstate EXCEPT !.finalize_called = TRUE]
    /\ UNCHANGED <<plan, budget_remaining, store, executed, tool_results>>
    /\ UNCHANGED <<crawlVars, dedupVars, rpsVars, tpmVars>>

BudgetNext ==
    \/ Controller
    \/ \E tool_name \in ChargedTools : \E n \in 0..MaxArgs : Charge(tool_name, n)
    \/ FinalizeCall

SpecBudget == BudgetInit /\ [][BudgetNext]_vars

\* the controller has run on the usage the store holds now
CheckedNow(t) == sstate._thread_id = t /\ sstate.usage = store[t].usage

\* C5: for every metered resource (seconds, ai_overviews and google_ads
\* included), once its usage counter has reached its ceiling the session is
\* exhausted at the next check of node_controller and of check_limits.
C5_CeilingMeansExhausted ==
    \A t \in DOMAIN store :
        CheckedNow(t) =>
            \A r \in Resources :
                store[t].usage[r] >= store[t].budget[r] =>
                    /\ ~sstate.should_continue
                    /\ check_limits(store[t])

\* C6: within one thread_id no usage counter ever decreases, whatever the
\* sequence of charges and of controller invocations.
C6_UsageMonotone ==
    [][\A t \in DOMAIN store :
          /\ t \in DOMAIN store'
          /\ \A r \in Resources : store'[t].usage[r] >= store[t].usage[r]]_vars

\* charges were made and the controller has run again on the charged usage
C6_Witness ==
    \E t \in DOMAIN store :
        /\ CheckedNow(t)
        /\ store[t].usage["pages"] > 0
        /\ store[t].usage["pdf"] > 0

\* ------------------------------------------------------------------------
\* The two limiters on a store whose commands may raise
\* ------------------------------------------------------------------------

\* acquire: INCR raises, "except Exception: return"
IncrFails(c) ==
    /\ callers[c].pc = "incr"
    /\ callers' = [callers EXCEPT ![c] =
          [IdleCaller EXCEPT !.pc = "admitted", !.raised = TRUE]]
    /\ admitted' = admitted \cup {[caller |-> c, bucket |-> callers[c].bucket, life |-> 0]}
    /\ UNCHANGED <<rps, rclock, rkeys, rlives>>
    /\ UNCHANGED <<crawlVars, dedupVars, tpmVars, budgetVars>>

\* acquire: PEXPIRE raises after INCR created the key, which keeps no time
\* to live; "except Exception: return"
PexpireFails(c) ==
    /\ callers[c].pc = "pexpire"
    /\ callers' = [callers EXCEPT ![c] =
          [IdleCaller EXCEPT !.pc = "admitted", !.raised = TRUE]]
    /\ admitted' = admitted \cup
          {[caller |-> c, bucket |-> callers[c].bucket, life |-> callers[c].life]}
    /\ UNCHANGED <<rps, rclock, rkeys, rlives>>
    /\ UNCHANGED <<crawlVars, dedupVars, tpmVars, budgetVars>>

\* the store command that raised: a raise the call swallows and goes on from
\* ("cleanup"), or a raise in the usage read or the write of an attempt
Raised(before, kind) == IF before = "admission" THEN before ELSE kind

on_store_error_denied == "timeout"

\* reserve_tokens: "except Exception: ... return True"
on_store_error == "allowed"

\* the top of the loop with a failing store: _cleanup_expired logs the error;
\* past max_wait get_current_usage is only read for the log, and the call
\* returns False
CleanupFails(w) ==
    /\ workers[w].pc = "check"
    /\ workers' = [workers EXCEPT ![w] =
          IF TimedOut(tclock - workers[w].start_time, workers[w].max_wait)
          THEN [IdleWorker EXCEPT !.pc = "done", !.result = "timeout",
                                  !.raised = Raised(workers[w].raised, "cleanup")]
          ELSE [@ EXCEPT !.pc = "read", !.raised = Raised(@, "cleanup")]]
    /\ UNCHANGED <<limit, tclock, zset>>
    /\ UNCHANGED <<crawlVars, dedupVars, rpsVars, budgetVars>>

\* the range query raises: get_current_usage returns 0
ReadFails(w) ==
    /\ workers[w].pc = "read"
    /\ workers' = [workers EXCEPT ![w] =
          IF HasSpace(limit - 0, workers[w].token_count)
          THEN [@ EXCEPT !.pc = "zadd", !.raised = "admission"]
          ELSE [@ EXCEPT !.pc = "sleep", !.retry_count = @ + 1, !.raised = "admission",
                         !.wake = SleepEnd(tclock, workers[w].retry_count + 1)]]
    /\ UNCHANGED <<limit, tclock, zset>>
    /\ UNCHANGED <<crawlVars, dedupVars, rpsVars, budgetVars>>

\* ZADD raises: the except branch of the loop returns
ZaddFails(w) ==
    /\ workers[w].pc = "zadd"
    /\ workers' = [workers EXCEPT ![w] =
          [IdleWorker EXCEPT !.pc = "done", !.result = on_store_error,
                             !.raised = "admission"]]
    /\ UNCHANGED <<limit, tclock, zset>>
    /\ UNCHANGED <<crawlVars, dedupVars, rpsVars, budgetVars>>

\* EXPIRE raises after the entry was written
ExpireFails(w) ==
    /\ workers[w].pc = "expire"
    /\ workers' = [workers EXCEPT ![w] =
          [IdleWorker EXCEPT !.pc = "done", !.result = on_store_error,
                             !.raised = "admission"]]
    /\ UNCHANGED <<limit, tclock, zset>>
    /\ UNCHANGED <<crawlVars, dedupVars, rpsVars, budgetVars>>

RpsFailures ==
    \/ \E c \in Callers : IncrFails(c)
    \/ \E c \in Callers : PexpireFails(c)

TpmFailures ==
    \/ \E w \in Workers : CleanupFails(w)
    \/ \E w \in Workers : ReadFails(w)
    \/ \E w \in Workers : ZaddFails(w)
    \/ \E w \in Workers : ExpireFails(w)

\* one limiter or the other is in use
FailingInit == RpsInit \/ TpmInit

FailingNext ==
    \/ rps > 0 /\ RpsNext
    \/ rps > 0 /\ RpsFailures
    \/ limit > 0 /\ TpmNext
    \/ limit > 0 /\ TpmFailures

SpecFailing == FailingInit /\ [][FailingNext]_vars

Succeeded(worker) == worker.pc = "done" /\ worker.result \in {"reserved", "allowed"}

\* C11: when a store command raises, both limiters fail open: acquire
\* returns, admitting the request, and a reserve_tokens call that ends
\* returns success.
C11_FailOpen ==
    /\ \A c \in DOMAIN callers : callers[c].raised => callers[c].pc = "admitted"
    /\ \A w \in DOMAIN workers :
          (workers[w].raised # "none" /\ workers[w].pc = "done") => Succeeded(workers[w])

\* C11 (amended): acquire returns, admitting the request, as soon as INCR or
\* PEXPIRE raises; reserve_tokens returns success, without another wait, once
\* the usage read or the write of an attempt made within max_wait raises.  A
\* failed clean-up is only logged, and past max_wait the call returns failure
\* whatever the store does.
C11_FailOpenOnAttempt ==
    /\ \A c \in DOMAIN callers : callers[c].raised => callers[c].pc = "admitted"
    /\ \A w \in DOMAIN workers :
          workers[w].raised = "admission" =>
              \/ workers[w].pc \in {"zadd", "expire"}
              \/ Succeeded(workers[w])

\* a call was let through on a raise of the store while the window was full
C11_Witness ==
    \E w \in DOMAIN workers :
        /\ workers[w].raised = "admission"
        /\ Succeeded(workers[w])
        /\ get_current_usage(zset.members, tclock) >= limit

\* ------------------------------------------------------------------------
\* reserve_tokens with a working store, under the scheduling the code has:
\* a worker in the loop goes on to its next store command, a sleep ends when
\* its time has come, and both take less than one unit of the clock
\* ------------------------------------------------------------------------

\* the positions between two store commands of one pass of the loop
Busy(worker) == worker.pc \in {"check", "read", "zadd", "expire"}

InLoop(worker) == worker.pc \in {"check", "read", "zadd", "expire", "sleep"}

\* a call is made while the clock leaves room for max_wait and one back-off
LiveReserve(w, token_count, max_wait) ==
    /\ tclock + (max_wait \div SecondsPerUnit) + 1 <= MaxTpmClock
    /\ ReserveTokens(w, token_count, max_wait)

\* the clock moves on when no worker is between two commands and no sleep
\* is over
LiveTick ==
    /\ \A w \in Workers : ~Busy(workers[w])
    /\ \A w \in Workers : workers[w].pc = "sleep" => workers[w].wake > tclock
    /\ TpmTick

WorkerStep(w) ==
    \/ CheckStep(w)
    \/ ReadStep(w)
    \/ ZaddStep(w)
    \/ ExpireStep(w)
    \/ WakeStep(w)

LiveNext ==
    \/ \E w \in Workers : \E token_count \in 1..(limit + 1) : \E max_wait \in MaxWaits :
          LiveReserve(w, token_count, max_wait)
    \/ \E w \in Workers : WorkerStep(w)
    \/ LiveTick

SpecTPMLive ==
    /\ TpmInit
    /\ [][LiveNext]_vars
    /\ \A w \in Workers : WF_vars(WorkerStep(w))
    /\ WF_vars(LiveTick)

\* the window has room for the request of the worker that has not written yet
Fits(worker) ==
    worker.pc \in {"check", "read", "zadd", "sleep"} =>
        get_current_usage(zset.members, tclock) + worker.token_count <= limit

C19_ReserveTerminates ==
    \A w \in Workers :
        /\ (InLoop(workers[w]) ~> workers[w].pc = "done")
        /\ [](workers[w].pc \in {"read", "zadd", "expire", "sleep"} =>
                 tclock - workers[w].start_time
                     <= workers[w].max_wait + (SleepEnd(0, 10) - 0))
        /\ [](workers[w].pc \in {"read", "zadd", "expire"} =>
                 tclock - workers[w].start_time <= workers[w].max_wait)

\* a call has returned failure
C19_Witness ==
    \E w \in DOMAIN workers :
        workers[w].pc = "done" /\ workers[w].result = "timeout"

\* ------------------------------------------------------------------------
\* A burst on RedisFixedWindowRPS: every caller enters acquire at the same
\* instant, the store works, a store command takes less than one tick of
\* the clock and a sleep ends when its time has come
\* ------------------------------------------------------------------------

BurstSize == 3

BurstCallers == 1..BurstSize

BurstInit ==
    /\ CrawlIdle /\ DedupIdle /\ TpmIdle /\ BudgetIdle
    /\ rps \in 1..MaxRps
    /\ rclock = 0
    /\ rkeys = [b \in Buckets |-> NoKey]
    /\ rlives = [b \in Buckets |-> 0]
    /\ callers = [c \in BurstCallers |-> IdleCaller]
    /\ admitted = {}

\* all callers read the clock and compute the key at the same instant
Burst ==
    /\ \A c \in BurstCallers : callers[c].pc = "idle"
    /\ callers' = [c \in BurstCallers |->
          [callers[c] EXCEPT !.pc = "incr", !.now_ms = NowMs(rclock),
                             !.bucket = BucketOf(NowMs(rclock))]]
    /\ UNCHANGED <<rps, rclock, rkeys, rlives, admitted>>
    /\ UNCHANGED <<crawlVars, dedupVars, tpmVars, budgetVars>>

\* the clock moves on when no caller waits for the store and no sleep is over
BurstTick ==
    /\ \A c \in BurstCallers : callers[c].pc \notin {"incr", "pexpire"}
    /\ \A c \in BurstCallers : callers[c].pc = "sleep" => callers[c].wake > rclock
    /\ RpsTick

BurstNext ==
    \/ Burst
    \/ \E c \in BurstCallers : Incr(c)
    \/ \E c \in BurstCallers : PexpireStep(c)
    \/ \E c \in BurstCallers : Wake(c)
    \/ BurstTick

SpecBurst == BurstInit /\ [][BurstNext]_vars

\* the window in which the burst arrived: the first key that was created
BurstBucket == CHOOSE b \in Buckets : rlives[b] > 0 /\ \A o \in 0..(b - 1) : rlives[o] = 0

\* the share of the k-th window after the burst: the capacity, until the
\* callers run out
ShareOf(k) == Min(rps, Max(0, BurstSize - k * rps))

CostGet(cost, key) ==
    IF \E i \in 1..Len(cost) : cost[i][1] = key
    THEN cost[CHOOSE i \in 1..Len(cost) : cost[i][1] = key][2]
    ELSE Amount(0)

\* tools.can_afford_tool: the queries and the pages of the cost against the
\* queries and the pages left; comparing an integer with the text of an
\* expression raises TypeError
can_afford_tool(remaining, tool_name, n) ==
    LET cost == get_tool_cost(tool_name, n)
        queries_needed == CostGet(cost, "queries")
        pages_needed == CostGet(cost, "pages")
        queries_available == Get(remaining, "queries", 0)
        pages_available == Get(remaining, "pages", 0)
    IN IF ~queries_needed.int THEN "TypeError"
       ELSE IF ~(queries_available >= queries_needed.n) THEN "False"
       ELSE IF ~pages_needed.int THEN "TypeError"
       ELSE IF pages_available >= pages_needed.n THEN "True"
       ELSE "False"

\* what a record of the store has left of each resource
Left(rec) == [r \in Resources |-> rec.budget[r] - rec.usage[r]]

\* what a call needs of a resource: the amount of its cost, and for the
\* expression "len(queries)" of a search the number of its queries
Needs(tool_name, n, r) ==
    LET v == CostGet(get_tool_cost(tool_name, n), r)
    IN IF v.int THEN v.n ELSE n

\* the usage after the call would exceed the budget of a resource
WouldExceed(rec, tool_name, n) ==
    \E r \in {"queries", "pages", "pdf", "google_ads", "ai_overviews"} :
        rec.usage[r] + Needs(tool_name, n, r) > rec.budget[r]

\* C14: can_afford_tool returns false exactly when the projected usage after
\* the call would exceed the budget of any resource (queries, pages, PDF
\* documents, ad-intelligence lookups, AI-overview lookups), and true
\* otherwise.
C14_AffordIffWithinBudget ==
    \A t \in DOMAIN store : \A tool_name \in ChargedTools : \A n \in 0..MaxArgs :
        can_afford_tool(Left(store[t]), tool_name, n) =
            IF WouldExceed(store[t], tool_name, n) THEN "False" ELSE "True"

\* the same without the search tool, whose cost is the text of an expression
C14_AffordIffWithinBudgetNoSerp ==
    \A t \in DOMAIN store : \A tool_name \in ChargedTools \ {"serp"} : \A n \in 0..MaxArgs :
        can_afford_tool(Left(store[t]), tool_name, n) =
            IF WouldExceed(store[t], tool_name, n) THEN "False" ELSE "True"

\* ------------------------------------------------------------------------
\* finalize, seen by the post-model hook of ReactGraph and by node_controller
\* ------------------------------------------------------------------------

\* the model answers with two tool calls in one message, the second one
\* finalize: the hook charges both, then finds finalize among the names
AgentCallThenFinalize(tool_name, n) ==
    /\ sstate.at = "agent"
    /\ sstate.should_continue
    /\ Len(executed) < MaxSteps
    /\ budget_remaining' =
          Decremented(Decremented(budget_remaining, tool_name, n), "finalize", 1)
    /\ sstate' = [sstate EXCEPT !.should_continue = FALSE,
                                !.termination_reason = "finalize_requested",
                                !.finalize_called = TRUE,
                                !.budget_remaining = budget_remaining']
    /\ executed' = executed \o
          <<[tool |-> tool_name, n |-> n, before |-> Get(budget_remaining, tool_name, -1)],
            [tool |-> "finalize", n |-> 1, before |-> Get(budget_remaining, "finalize", -1)]>>
    /\ UNCHANGED <<plan, store, tool_results>>
    /\ UNCHANGED <<crawlVars, dedupVars, rpsVars, tpmVars>>

\* a session runs under the hook (its plan has tools_budgeting) or under the
\* controller (its plan has budgets)
HookSession == plan.tools_budgeting # EmptyDict

StopInit == DispatchInit \/ BudgetInit

StopNext ==
    \/ HookSession /\ DispatchNext
    \/ HookSession /\ \E tool_name \in DispatchTools \ {"finalize"} :
          \E n \in ArgCounts(tool_name) : AgentCallThenFinalize(tool_name, n)
    \/ ~HookSession /\ BudgetNext

SpecStop == StopInit /\ [][StopNext]_vars

FinalizeReasons == {"finalize_requested", "agent_finalized"}

\* a step in which the hook, or the controller, has a finalize call before it
FinalizeSeen ==
    \/ \E n \in ArgCounts("finalize") : AgentCall("finalize", n)
    \/ \E tool_name \in DispatchTools \ {"finalize"} :
          \E n \in ArgCounts(tool_name) : AgentCallThenFinalize(tool_name, n)
    \/ sstate.finalize_called /\ Controller

C15_HookWitness ==
    /\ sstate.termination_reason = "finalize_requested"
    /\ \E i \in 1..Len(executed) :
          /\ executed[i].before > 0
          /\ budget_remaining[executed[i].tool] = 0
          /\ i + 1 = Len(executed)

\* ------------------------------------------------------------------------
\* tools.crawl_tool on the records crawl_pages returned
\* ------------------------------------------------------------------------

\* crawl_tool: an empty list for no URLs, else the markdown and the URL of
\* the records with success
crawl_tool(us, pages) ==
    IF us = <<>> THEN <<>>
    ELSE LET successful == SelectSeq(pages, LAMBDA p : p.success)
         IN [i \in DOMAIN successful |->
                [markdown |-> successful[i].md, url |-> successful[i].url]]

\* C16: the result of the crawl tool holds one entry for every requested URL,
\* with content or with an explicit failure reason; no URL is dropped.
C16_EntryForEveryUrl ==
    pc = "done" =>
        /\ Len(crawl_tool(urls, returned)) = Len(urls)
        /\ \A i \in DOMAIN urls :
              \E j \in DOMAIN crawl_tool(urls, returned) :
                  crawl_tool(urls, returned)[j].url = urls[i]

\* ------------------------------------------------------------------------
\* aggregate_and_dedup and deduplicate_paragraphs on the pages of a crawl
\* ------------------------------------------------------------------------
MaxPages == 3

\* fingerprints at the distances 1, 7, 9, 10, 16 and 17: 9 and 10 lie on the
\* two sides of the threshold 0.85, 16 and 17 on the two sides of 0.75
PageFps == {0, 1, 10, 17}

\* 0.75 is met exactly at 16 differing bits (48/64); 0.85 is the default
Thresholds == {75, similarity_threshold}

\* paragraphs of one length, above min_paragraph_length
PageParagraphs == {Para(fp, 60) : fp \in PageFps}

\* the contents of a page: no paragraph, one, or two
PageTexts ==
    {<<>>} \cup {<<Chunk(p)>> : p \in PageParagraphs}
           \cup {<<Chunk(p), Chunk(q)>> : p \in PageParagraphs, q \in PageParagraphs}

PageLists ==
    UNION {[1..n -> PageTexts] : n \in 1..MaxPages}

PagesInit ==
    /\ CrawlIdle /\ RpsIdle /\ TpmIdle /\ BudgetIdle
    /\ text = <<>> /\ out1 = <<>> /\ out2 = <<>>
    /\ dpc = "pages"
    /\ \E contents \in PageLists :
          in_pages = [i \in DOMAIN contents |-> [url |-> i, md |-> contents[i]]]
    /\ in_threshold \in Thresholds
    /\ updated_pages = <<>>
    /\ deduplicated = <<>>

\* content_utils.aggregate_and_dedup(pages, similarity_threshold)
Aggregate ==
    /\ dpc \in {"pages", "deduplicated"}
    /\ updated_pages' = aggregate_and_dedup(in_pages, in_threshold)
    /\ dpc' = IF dpc = "pages" THEN "aggregated" ELSE "both"
    /\ UNCHANGED <<text, out1, out2, in_pages, in_threshold, deduplicated>>
    /\ UNCHANGED <<crawlVars, rpsVars, tpmVars, budgetVars>>

\* content_utils.deduplicate_paragraphs(content, similarity_threshold) on the
\* content of each page
DeduplicateEach ==
    /\ dpc \in {"pages", "aggregated"}
    /\ deduplicated' = [i \in DOMAIN in_pages |->
          deduplicate_paragraphs(in_pages[i].md, in_threshold, min_paragraph_length)]
    /\ dpc' = IF dpc = "pages" THEN "deduplicated" ELSE "both"
    /\ UNCHANGED <<text, out1, out2, in_pages, in_threshold, updated_pages>>
    /\ UNCHANGED <<crawlVars, rpsVars, tpmVars, budgetVars>>

PagesNext == Aggregate \/ DeduplicateEach

SpecPages == PagesInit /\ [][PagesNext]_vars

Aggregated == dpc \in {"aggregated", "both"}

\* the paragraphs of page i before and after aggregate_and_dedup
In(i) == SplitParagraphs(in_pages[i].md)

Out(i) == SplitParagraphs(updated_pages[i].md)

NearDuplicates(p, q) == IsSimilar(Simhash(p), Simhash(q), in_threshold)

\* out holds paragraphs of inp in the order of inp, none of them twice
KeepsOrder(out, inp) ==
    /\ Range(out) \subseteq Range(inp)
    /\ \A a, b \in DOMAIN out :
          a < b =>
              \E x, y \in DOMAIN inp : x < y /\ inp[x] = out[a] /\ inp[y] = out[b]

\* C17: a paragraph that is a near-duplicate of a paragraph of an earlier
\* page is removed from the later page, and the earlier page keeps its
\* paragraph unchanged.
C17_LaterDuplicateRemoved ==
    (Aggregated /\ Len(in_pages) >= 2) =>
        \A i, j \in DOMAIN in_pages :
            i < j =>
                \A p \in Range(In(i)) : \A q \in Range(In(j)) :
                    NearDuplicates(p, q) =>
                        /\ q \notin Range(Out(j))
                        /\ p \in Range(Out(i))

\* C17 (amended): aggregate_and_dedup goes through two or more pages in the
\* given order with the pool of the paragraphs it retained: a paragraph is
\* removed exactly when it is a near-duplicate of a paragraph retained before
\* it, on an earlier page or earlier on its own page; retained paragraphs stay
\* as they are, in their order; a paragraph that also stands on an earlier
\* page is removed from the later page.
C17_FirstRetainedWins ==
    (Aggregated /\ Len(in_pages) >= 2) =>
        /\ Len(updated_pages) = Len(in_pages)
        /\ \A j \in DOMAIN in_pages :
              /\ updated_pages[j].url = in_pages[j].url
              /\ KeepsOrder(Out(j), In(j))
              /\ \A q \in Range(In(j)) \ Range(Out(j)) :
                    \E i \in 1..j : \E p \in Range(Out(i)) : NearDuplicates(p, q)
              /\ \A i \in 1..j : \A a \in DOMAIN Out(i) : \A b \in DOMAIN Out(j) :
                    (i < j \/ a < b) => ~NearDuplicates(Out(i)[a], Out(j)[b])
              /\ \A i \in 1..(j - 1) : \A p \in Range(In(i)) : p \notin Range(Out(j))

\* pages [A, B, C] with the same paragraph on A and B: retained on A and
\* removed from B
C17_Witness ==
    /\ Aggregated
    /\ Len(in_pages) = 3
    /\ \E p \in Range(In(1)) \cap Range(In(2)) :
          /\ p \in Range(Out(1))
          /\ p \notin Range(Out(2))
    /\ Out(3) # <<>>

\* 1 - d/64 >= threshold, in hundredths of the 64 bits
AtOrAboveThreshold(p, q) ==
    100 * HashBits - 100 * distance(Simhash(p), Simhash(q)) >= in_threshold * HashBits

Outcomes(tool_name) ==
    CASE tool_name = "crawl" -> {"ok", "raises", "all_failed"}
      [] tool_name = "finalize" -> {"ok"}
      [] OTHER -> {"ok", "raises"}

\* what the tool returns to the tool node
\*   pdf_tool:   the answer, or "Error processing PDF: ..."
\*   serp_tool:  the formatted results, or "" when the search raises
\*   crawl_tool: the successful pages (none when every URL failed), or one
\*               failure entry per URL when crawl_pages raises
tool_result(tool_name, n, outcome) ==
    CASE tool_name = "pdf" ->
            IF outcome = "ok" THEN [kind |-> "content"] ELSE [kind |-> "error"]
      [] tool_name = "serp" ->
            IF n = 0 THEN [kind |-> "empty"]
            ELSE IF outcome = "ok" THEN [kind |-> "content"] ELSE [kind |-> "empty"]
      [] tool_name = "crawl" ->
            IF n = 0 THEN [kind |-> "error"]
            ELSE IF outcome = "ok" THEN [kind |-> "content"]
            ELSE IF outcome = "raises" THEN [kind |-> "error"]
            ELSE [kind |-> "empty"]
      [] OTHER -> [kind |-> "content"]

\* the model answers with a tool call once the results of the earlier calls
\* are back
ToolsAgentCall(tool_name, n) ==
    /\ Len(tool_results) = Len(executed)
    /\ AgentCall(tool_name, n)

\* the tool node runs the call and appends its return value to the messages
ToolReturns(outcome) ==
    /\ Len(tool_results) < Len(executed)
    /\ LET call == executed[Len(tool_results) + 1]
       IN /\ outcome \in Outcomes(call.tool)
          /\ tool_results' = Append(tool_results,
                [outcome |-> outcome, result |-> tool_result(call.tool, call.n, outcome)])
    /\ UNCHANGED <<plan, budget_remaining, store, sstate, executed>>
    /\ UNCHANGED <<crawlVars, dedupVars, rpsVars, tpmVars>>

ToolsNext ==
    \/ \E tool_name \in DispatchTools : \E n \in ArgCounts(tool_name) :
          ToolsAgentCall(tool_name, n)
    \/ \E outcome \in {"ok", "raises", "all_failed"} : ToolReturns(outcome)
    \/ AgentAnswer

SpecTools == DispatchInit /\ [][ToolsNext]_vars

\* what the calls handed to the tool node have cost of the allowance of a tool
RECURSIVE ChargedFor(_, _)
ChargedFor(calls, tool_name) ==
    IF calls = <<>> THEN 0
    ELSE (IF Head(calls).tool = tool_name
          THEN usage_count(tool_name, Head(calls).n) ELSE 0)
         + ChargedFor(Tail(calls), tool_name)

\* C20: when a tool call itself errors the cost of the attempt is still
\* charged, the error is returned to the reasoning process as the tool
\* result, and the session stays active: a tool error alone never ends it.
C20_ToolErrorChargedAndReturned ==
    /\ \A tool_name \in DOMAIN budget_remaining :
          budget_remaining[tool_name] =
              Max(0, plan.tools_budgeting[tool_name] - ChargedFor(executed, tool_name))
    /\ \A i \in DOMAIN tool_results :
          tool_results[i].outcome # "ok" => tool_results[i].result.kind = "error"
    /\ (\A i \in DOMAIN executed : executed[i].tool # "finalize") =>
          /\ sstate.should_continue
          /\ sstate.termination_reason = "none"

\* the part of C20 the code keeps: failed attempts are charged and the
\* session goes on
ToolErrorChargedSessionActive ==
    /\ \A tool_name \in DOMAIN budget_remaining :
          budget_remaining[tool_name] =
              Max(0, plan.tools_budgeting[tool_name] - ChargedFor(executed, tool_name))
    /\ (\A i \in DOMAIN executed : executed[i].tool # "finalize") =>
          /\ sstate.should_continue
          /\ sstate.termination_reason = "none"

\* ------------------------------------------------------------------------
\* tools.get_tool_cost as the cost of a call
\* ------------------------------------------------------------------------

\* every amount of a cost dict is a non-negative integer
IntegerCost(cost) ==
    \A i \in DOMAIN cost : cost[i][2].int /\ cost[i][2].n >= 0

\* C21: get_tool_cost returns, for every tool name and argument list, the
\* declared cost as non-negative integers: a serp call with k queries costs k
\* 'queries', a crawl call with N URLs costs N 'pages', one pdf, google_ads or
\* ai_overview call costs 1 of its resource, and a tool name that is not in
\* the registry costs nothing (for the calls a registered session can charge).
C21_CostIsDeclaredInteger ==
    \A t \in DOMAIN store : \A tool_name \in ChargedTools : \A n \in 0..MaxArgs :
        LET cost == get_tool_cost(tool_name, n)
        IN /\ IntegerCost(cost)
           /\ tool_name = "serp" => CostGet(cost, "queries") = Amount(n)
           /\ tool_name = "crawl" => CostGet(cost, "pages") = Amount(n)
           /\ tool_name = "pdf" => CostGet(cost, "pdf") = Amount(1)
           /\ tool_name = "google_ads" => CostGet(cost, "google_ads") = Amount(1)
           /\ tool_name = "ai_overview" => CostGet(cost, "ai_overviews") = Amount(1)
           /\ tool_name = "translate" =>
                 \A i \in DOMAIN cost : cost[i][2] = Amount(0)

\* the same for the tools whose declared cost holds no expression
CostIsDeclaredIntegerNoExpression ==
    \A t \in DOMAIN store :
    \A tool_name \in ChargedTools \ {"serp", "crawl"} : \A n \in 0..MaxArgs :
        LET cost == get_tool_cost(tool_name, n)
        IN /\ IntegerCost(cost)
           /\ tool_name = "pdf" => CostGet(cost, "pdf") = Amount(1)
           /\ tool_name = "google_ads" => CostGet(cost, "google_ads") = Amount(1)
           /\ tool_name = "ai_overview" => CostGet(cost, "ai_overviews") = Amount(1)
           /\ tool_name = "translate" =>
                 \A i \in DOMAIN cost : cost[i][2] = Amount(0)

\* ------------------------------------------------------------------------
\* Which paragraph deduplicate_paragraphs keeps
\* ------------------------------------------------------------------------

\* a paragraph deduplicate_paragraphs fingerprints
Fingerprinted(p) == p.len >= min_paragraph_length

NearDuplicateParagraphs(p, q) ==
    /\ Fingerprinted(p) /\ Fingerprinted(q)
    /\ IsSimilar(Simhash(p), Simhash(q), similarity_threshold)

\* C22: in deduplicate_paragraphs, when a paragraph of at least
\* min_paragraph_length characters is a near-duplicate of an earlier kept
\* paragraph, exactly one of the two survives: the longer one (the earlier
\* one on a tie), at the position of the earlier one; so no two surviving
\* paragraphs are near-duplicates of each other, and a text of two
\* near-duplicates comes out as the longer one alone.
C22_LongerOfTwoSurvives ==
    (dpc \in {"once", "twice"} /\ Len(SplitParagraphs(text)) >= 2) =>
        LET inp == SplitParagraphs(text)
            out == SplitParagraphs(out1)
        IN /\ \A a, b \in DOMAIN out :
                 a < b => ~NearDuplicateParagraphs(out[a], out[b])
           /\ (Len(inp) = 2 /\ NearDuplicateParagraphs(inp[1], inp[2])) =>
                 out = <<IF inp[2].len > inp[1].len THEN inp[2] ELSE inp[1]>>

\* the part of C22 that holds: two near-duplicates alone
LongerOfTwoAlone ==
    (dpc \in {"once", "twice"} /\ Len(SplitParagraphs(text)) = 2) =>
        LET inp == SplitParagraphs(text)
            out == SplitParagraphs(out1)
        IN NearDuplicateParagraphs(inp[1], inp[2]) =>
               out = <<IF inp[2].len > inp[1].len THEN inp[2] ELSE inp[1]>>

\* ------------------------------------------------------------------------
\* The life of what the two limiters write into the store
\* ------------------------------------------------------------------------

\* the store drops a key only when a time to live was set on it
HasTimeToLive(k) == k.expire_at # -1

\* the caller that created the key of bucket b is at its PEXPIRE
AboutToPexpire(b) == \E c \in DOMAIN callers : callers[c].pc = "pexpire" /\ callers[c].bucket = b

\* a call that wrote an entry is at its EXPIRE
AboutToExpire == \E w \in DOMAIN workers : workers[w].pc = "expire"

\* C23: every counter key created by acquire and every reservation entry
\* written by reserve_tokens goes away once its window is over: a live counter
\* key holds a time to live or its creator is at the command that sets one,
\* and so does the sorted set while it holds entries.
C23_KeysAndEntriesExpire ==
    /\ \A b \in DOMAIN rkeys :
          rkeys[b].val > 0 => HasTimeToLive(rkeys[b]) \/ AboutToPexpire(b)
    /\ (limit > 0 /\ zset.members # {}) => HasTimeToLive(zset) \/ AboutToExpire

\* a counter key that no command will give a time to live, after the end of
\* its window
LeakedKey(b) ==
    /\ rkeys[b].val > 0
    /\ ~HasTimeToLive(rkeys[b])
    /\ ~AboutToPexpire(b)
    /\ rclock >= (b + 1) * 1000

NoLeakedKey == \A b \in DOMAIN rkeys : ~LeakedKey(b)
\* ------------------------------------------------------------------------
\* One tier of crawl_pages as the event loop runs it: one task per URL still
\* to try, a semaphore of max_concurrency permits, and the requests each
\* task sends while it holds a permit
\* ------------------------------------------------------------------------
MaxTierUrls == 2

MaxConcurrency == 1

\* the api_timeout of _crawl_single_url_via_apis, which crawl_via_apis
\* leaves at its default, in seconds
api_timeout == 30

\* crawl_pages(api_timeout=...): the default, and a longer one
TimeoutsPerUrl == {30, 60}

Services == {"http", "dog", "dog_js", "bright"}

levelVars == <<urls, use_browser, pc, level_idx, results, urls_to_try,
               fetch_log, returned, failed_urls, response>>

NoResult == Record("z", NoPage, FALSE, "none", "none")

Task(url) == [url |-> url, pc |-> "wait", dog |-> NoPage, result |-> NoResult]

TierInit ==
    /\ DedupIdle /\ RpsIdle /\ TpmIdle /\ BudgetIdle
    /\ urls = <<>> /\ use_browser = FALSE /\ pc = "off" /\ level_idx = 0
    /\ results = <<>> /\ urls_to_try = <<>> /\ fetch_log = <<>>
    /\ returned = <<>> /\ failed_urls = {} /\ response = <<>>
    /\ \E level \in {"requests", "apis"} : \E c \in 1..MaxConcurrency :
       \E t \in (IF level = "apis" THEN TimeoutsPerUrl ELSE {api_timeout}) :
          tier = [level |-> level, max_concurrency |-> c, timeout_per_url |-> t]
    /\ \E us \in SeqsUpTo(InputUrls, MaxTierUrls) :
          /\ us # <<>>
          /\ tasks = [i \in DOMAIN us |-> Task(us[i])]
          /\ fetch_count = [i \in DOMAIN us |-> [s \in Services |-> 0]]
    /\ sem = tier.max_concurrency
    /\ in_flight = {}

\* the request of task i to a service goes on the wire
Sent(i, service) ==
    /\ fetch_count' = [fetch_count EXCEPT ![i][service] = @ + 1]

\* the wait_for around a service call of a task expires before the wait_for
\* crawl_via_apis put around the task, which started no later
CallTimesOutFirst == tier.timeout_per_url > api_timeout

retry_with_js_always(markdown, needs_js) == TRUE

\* "if self._is_security_challenge(markdown_content, ...) and not needs_js"
retry_with_js(markdown, needs_js) == _is_security_challenge(markdown) /\ ~needs_js

\* a task gets a permit ("async with sem") and sends its first request
Enter(i) ==
    /\ tasks[i].pc = "wait"
    /\ sem > 0
    /\ sem' = sem - 1
    /\ LET service == IF tier.level = "requests" THEN "http" ELSE "dog"
       IN /\ tasks' = [tasks EXCEPT ![i].pc = service]
          /\ in_flight' = in_flight \cup {[task |-> i, service |-> service]}
          /\ Sent(i, service)
    /\ UNCHANGED <<tier, levelVars>>
    /\ UNCHANGED <<dedupVars, rpsVars, tpmVars, budgetVars>>

\* the task returns its record and leaves "async with sem"
Leave(i, dog, record, on_wire) ==
    /\ tasks' = [tasks EXCEPT ![i].pc = "done", ![i].dog = dog, ![i].result = record]
    /\ sem' = sem + 1
    /\ in_flight' = on_wire
    /\ UNCHANGED fetch_count

\* fetch_one: client.get answers, times out or raises; the request is over
\* in each case
HttpAnswer(i, o) ==
    /\ tasks[i].pc = "http"
    /\ Leave(i, NoPage, fetch_one(tasks[i].url, o), in_flight \ {[task |-> i, service |-> "http"]})
    /\ UNCHANGED <<tier, levelVars>>
    /\ UNCHANGED <<dedupVars, rpsVars, tpmVars, budgetVars>>

\* what is on the wire once the call of task i to a service is over for the
\* task: an answer ends the request; when wait_for gives up, the thread
\* asyncio.to_thread started goes on with it
OnWireAfter(i, service, answered) ==
    IF answered THEN in_flight \ {[task |-> i, service |-> service]} ELSE in_flight

\* _crawl_single_url_via_apis after the first Scraping Dog call: a page that
\* is no challenge is returned, a challenge page is asked for again with
\* js_rendering=True, and after a failure, a timeout or an exception Bright
\* Data is asked
AfterDog(i, answer, answered) ==
    LET on_wire == OnWireAfter(i, "dog", answered)
    IN IF ApiSuccess(answer)
       THEN IF retry_with_js(answer, FALSE)
            THEN /\ tasks' = [tasks EXCEPT ![i].pc = "dog_js", ![i].dog = answer]
                 /\ in_flight' = on_wire \cup {[task |-> i, service |-> "dog_js"]}
                 /\ Sent(i, "dog_js")
                 /\ UNCHANGED sem
            ELSE /\ Leave(i, answer,
                          _format_api_result(tasks[i].url, answer, "scraping_dog"), on_wire)
       ELSE /\ tasks' = [tasks EXCEPT ![i].pc = "bright", ![i].dog = answer]
            /\ in_flight' = on_wire \cup {[task |-> i, service |-> "bright"]}
            /\ Sent(i, "bright")
            /\ UNCHANGED sem

DogAnswer(i, answer) ==
    /\ tasks[i].pc = "dog"
    /\ AfterDog(i, answer, TRUE)
    /\ UNCHANGED <<tier, levelVars>>
    /\ UNCHANGED <<dedupVars, rpsVars, tpmVars, budgetVars>>

\* "except asyncio.TimeoutError" of the Scraping Dog call
DogTimeout(i) ==
    /\ tasks[i].pc = "dog"
    /\ CallTimesOutFirst
    /\ AfterDog(i, NoPage, FALSE)
    /\ UNCHANGED <<tier, levelVars>>
    /\ UNCHANGED <<dedupVars, rpsVars, tpmVars, budgetVars>>

\* the end of the retry with js_rendering=True: its page if it brought one,
\* else the page of the first call
AfterDogJs(i, answer, answered) ==
    Leave(i, tasks[i].dog,
          IF ApiSuccess(answer)
          THEN _format_api_result(tasks[i].url, answer, "scraping_dog_js")
          ELSE _format_api_result(tasks[i].url, tasks[i].dog, "scraping_dog"),
          OnWireAfter(i, "dog_js", answered))

DogJsAnswer(i, answer) ==
    /\ tasks[i].pc = "dog_js"
    /\ AfterDogJs(i, answer, TRUE)
    /\ UNCHANGED <<tier, levelVars>>
    /\ UNCHANGED <<dedupVars, rpsVars, tpmVars, budgetVars>>

\* "except Exception" of the retry, on the TimeoutError of its wait_for
DogJsTimeout(i) ==
    /\ tasks[i].pc = "dog_js"
    /\ CallTimesOutFirst
    /\ AfterDogJs(i, NoPage, FALSE)
    /\ UNCHANGED <<tier, levelVars>>
    /\ UNCHANGED <<dedupVars, rpsVars, tpmVars, budgetVars>>

\* the end of the Bright Data call
AfterBright(i, answer, answered) ==
    Leave(i, tasks[i].dog,
          IF ApiSuccess(answer)
          THEN _format_api_result(tasks[i].url, answer, "bright_data")
          ELSE Record(tasks[i].url, NoPage, FALSE, "All API services failed", "api_failed"),
          OnWireAfter(i, "bright", answered))

BrightAnswer(i, answer) ==
    /\ tasks[i].pc = "bright"
    /\ AfterBright(i, answer, TRUE)
    /\ UNCHANGED <<tier, levelVars>>
    /\ UNCHANGED <<dedupVars, rpsVars, tpmVars, budgetVars>>

BrightTimeout(i) ==
    /\ tasks[i].pc = "bright"
    /\ CallTimesOutFirst
    /\ AfterBright(i, NoPage, FALSE)
    /\ UNCHANGED <<tier, levelVars>>
    /\ UNCHANGED <<dedupVars, rpsVars, tpmVars, budgetVars>>

\* crawl_via_apis: the wait_for around each task expires timeout_per_url
\* after gather started them all; the tasks still running are cancelled,
\* those holding a permit give it back, and the threads go on
Deadline ==
    /\ tier.level = "apis"
    /\ \E i \in DOMAIN tasks : tasks[i].pc # "done"
    /\ tasks' = [i \in DOMAIN tasks |->
          IF tasks[i].pc = "done" THEN tasks[i]
          ELSE [tasks[i] EXCEPT !.pc = "done",
                   !.result = Record(tasks[i].url, NoPage, FALSE, "Timeout", "api_timeout")]]
    /\ sem' = tier.max_concurrency
    /\ UNCHANGED <<tier, in_flight, fetch_count, levelVars>>
    /\ UNCHANGED <<dedupVars, rpsVars, tpmVars, budgetVars>>

\* a request nobody waits for any more comes to its end in its thread
ThreadEnds(f) ==
    /\ f \in in_flight
    /\ tasks[f.task].pc # f.service
    /\ in_flight' = in_flight \ {f}
    /\ UNCHANGED <<tier, sem, tasks, fetch_count, levelVars>>
    /\ UNCHANGED <<dedupVars, rpsVars, tpmVars, budgetVars>>

TierNext ==
    \/ \E i \in DOMAIN tasks : Enter(i)
    \/ \E i \in DOMAIN tasks : \E o \in RequestOutcomes : HttpAnswer(i, o)
    \/ \E i \in DOMAIN tasks : \E answer \in ApiAnswers : DogAnswer(i, answer)
    \/ \E i \in DOMAIN tasks : DogTimeout(i)
    \/ \E i \in DOMAIN tasks : \E answer \in ApiAnswers : DogJsAnswer(i, answer)
    \/ \E i \in DOMAIN tasks : DogJsTimeout(i)
    \/ \E i \in DOMAIN tasks : \E answer \in ApiAnswers : BrightAnswer(i, answer)
    \/ \E i \in DOMAIN tasks : BrightTimeout(i)
    \/ Deadline
    \/ \E f \in in_flight : ThreadEnds(f)

SpecTier == TierInit /\ [][TierNext]_vars

\* C24: within one tier, lightweight HTTP or paid API, no more requests are
\* in flight than max_concurrency (requests_concurrency), however many URLs
\* are outstanding.
C24_InFlightWithinLimit ==
    \A i \in DOMAIN tasks : Cardinality(in_flight) <= tier.max_concurrency

\* the same with the per-URL timeout the callers of crawl_pages in the
\* repository leave at its default, and in the lightweight tier
InFlightWithinLimitByDefault ==
    \A i \in DOMAIN tasks :
        ~CallTimesOutFirst => Cardinality(in_flight) <= tier.max_concurrency

\* the tasks never hold more permits than there are
PermitsWithinLimit ==
    \A i \in DOMAIN tasks :
        /\ sem >= 0
        /\ Cardinality({j \in DOMAIN tasks : tasks[j].pc \in Services}) + sem
              = tier.max_concurrency
\* the first Scraping Dog call of task i brought a page, and it is a
\* challenge page
FirstWasChallenge(i) == ApiSuccess(tasks[i].dog) /\ _is_security_challenge(tasks[i].dog)

\* the retry with js_rendering=True is sent at most once for a URL, and
\* only after a first call that brought a challenge page
RetryOnlyAfterChallenge(i) ==
    /\ fetch_count[i]["dog_js"] <= 1
    /\ fetch_count[i]["dog_js"] = 1 => fetch_count[i]["dog"] = 1 /\ FirstWasChallenge(i)

TextLens == {100, 149, 150, 400, 999, 1000, 1300}

\* len(html): ratios of text to HTML on both sides of 2%
HtmlLens == {2000, 6000, 70000}

\* a 2xx response with a body: its markdown, the length of its HTML,
\* whether the markdown holds a phrase of the challenge lists, and whether
\* the HTML shows a sign of client-side rendering (a framework root marker,
\* a noscript warning, fewer than 200 visible characters, a loading text)
Responses ==
    {[md |-> <<Chunk(Para(0, n))>>, html |-> h, phrase |-> ph, csr |-> js] :
        n \in TextLens, h \in HtmlLens, ph \in BOOLEAN, js \in BOOLEAN}

\* CrawlAdapter.detect_javascript_need(html, markdown)
detect_javascript_need(page) ==
    IF page.html < 100 THEN FALSE
    ELSE \/ (page.md # <<>> /\ StrippedLen(page.md) < 300)
         \/ page.csr

ClassifyInit ==
    /\ DedupIdle /\ RpsIdle /\ TpmIdle /\ BudgetIdle
    /\ tier = <<>> /\ sem = 0 /\ tasks = <<>> /\ in_flight = {} /\ fetch_count = <<>>
    /\ response \in Responses
    /\ urls = <<"a">>
    /\ use_browser \in BOOLEAN
    /\ pc = "idle"
    /\ level_idx = 0
    /\ results = <<>>
    /\ urls_to_try = <<>>
    /\ fetch_log = <<>>
    /\ returned = <<>>
    /\ failed_urls = {}

\* the "requests" iteration of the level loop when the server answers the
\* URL with the response, without a redirect
RequestsLevelOnResponse ==
    /\ pc = "levels"
    /\ level_idx = 1
    /\ crawl_levels(use_browser)[level_idx] = "requests"
    /\ LET level_results ==
               [i \in DOMAIN urls_to_try |->
                   fetch_one(urls_to_try[i],
                             [kind |-> "page", page |-> response, final |-> urls_to_try[i]])]
       IN /\ results' = UpdateResults(results, level_results)
          /\ urls_to_try' =
                NextUrlsToTry(urls_to_try, SuccessfulUrls(results, level_results))
          /\ fetch_log' = fetch_log \o LogEntries(level_idx, urls_to_try, level_results)
    /\ level_idx' = level_idx + 1
    /\ UNCHANGED <<urls, use_browser, pc, returned, failed_urls, tierVars>>
    /\ UNCHANGED <<dedupVars, rpsVars, tpmVars, budgetVars>>

ClassifyNext == CrawlBegin \/ RequestsLevelOnResponse

SpecClassify == ClassifyInit /\ [][ClassifyNext]_vars

\* the lightweight tier has classified the response
Classified == pc = "levels" /\ level_idx = 2 /\ response # <<>>

\* the tier took the response as the content of the URL
Accepted == results[1].success /\ results[1].md = response.md /\ urls_to_try = <<>>

\* the URL goes on to the next tier
Escalated == ~results[1].success /\ urls_to_try = urls

HoldsPhrase(page) == page.phrase

RatioBelow2Percent(page) == TextLen(page.md) * 100 < 2 * Max(page.html, 1)

\* C26: the lightweight tier accepts every response whose text has at least
\* 150 characters, holds no challenge phrase and is at least 2% of the HTML,
\* and rejects a response only when the text is shorter than 150 characters,
\* a phrase matches, or the ratio is below 2%.
C26_AcceptsFrom150Chars ==
    Classified =>
        (Accepted <=> /\ StrippedLen(response.md) >= 150
                      /\ ~HoldsPhrase(response)
                      /\ ~RatioBelow2Percent(response))

\* what the code does: the same with 1000 characters, the length under
\* which _is_security_challenge takes any text for a challenge
AcceptsFrom1000Chars ==
    Classified =>
        /\ Accepted <=> /\ StrippedLen(response.md) >= 1000
                        /\ ~HoldsPhrase(response)
                        /\ ~RatioBelow2Percent(response)
        /\ Accepted \/ Escalated

\* C27: a response of the lightweight tier that is neither empty nor blocked
\* but shows signs of client-side rendering is not finalized at the
\* lightweight tier: it goes on to the next tier.
C27_JsRequiredEscalates ==
    (Classified /\ ~_looks_blocked_or_empty(response) /\ detect_javascript_need(response))
        => Escalated
\* ------------------------------------------------------------------------
\* The iteration ceiling of a session
\* ------------------------------------------------------------------------

\* one round of the loop: the agent answers with tool calls and the hook
\* runs on them, or node_controller runs
Round ==
    \/ \E tool_name \in DispatchTools : \E n \in ArgCounts(tool_name) :
          AgentCall(tool_name, n)
    \/ \E tool_name \in DispatchTools \ {"finalize"} :
          \E n \in ArgCounts(tool_name) : AgentCallThenFinalize(tool_name, n)
    \/ Controller

\* node_controller runs on a state at the ceiling, with budget left and
\* without a finalize call
ControllerAtCeiling ==
    /\ Controller
    /\ sstate.loop_iteration >= 10
    /\ ~sstate.finalize_called
    /\ sstate'.termination_reason # "budget_exhausted"

\* C28: the iteration counter of the session advances with every round of
\* the loop, and at the ceiling of 10 the session is stopped with the reason
\* max_iterations, also when no budget is used up and finalize was never
\* called.
C28_CeilingStopsTheLoop ==
    /\ [][Round => sstate'.loop_iteration = sstate.loop_iteration + 1]_vars
    /\ [][ControllerAtCeiling =>
            /\ ~sstate'.should_continue
            /\ sstate'.termination_reason = "max_iterations"]_vars

\* the second half alone: what node_controller does with a state at the
\* ceiling
CeilingStopsWhenReached ==
    [][ControllerAtCeiling =>
          /\ ~sstate'.should_continue
          /\ sstate'.termination_reason = "max_iterations"]_vars

\* no step of a session changes loop_iteration
LoopIterationNeverAdvances == [][sstate'.loop_iteration = sstate.loop_iteration]_vars
\* ------------------------------------------------------------------------
\* The records crawl_pages returns: failure reasons and order
\* ------------------------------------------------------------------------

\* what the levels that were handed the URL reported for it
AttemptsOf(url) == {e \in Range(fetch_log) : e.url = url}

\* the URL went through every configured level, and none reported
\* admissible content for it
NeverAdmissible(url) ==
    /\ \A level \in DOMAIN crawl_levels(use_browser) :
          \E e \in AttemptsOf(url) : e.level = level
    /\ \A e \in AttemptsOf(url) : ~e.ok

\* the last level that was handed the URL
LastLevelOf(url) ==
    CHOOSE l \in {e.level : e \in AttemptsOf(url)} :
        \A e \in AttemptsOf(url) : e.level <= l

\* the failure reasons the records of a level carry
ReasonsOf(level) ==
    IF level = "requests" THEN {"JS rendering required", "HTTP status", "exception"}
    ELSE IF level = "crawl4ai" THEN {"Security challenge", "Crawl failed", "batch exception"}
    ELSE {"All API services failed", "Timeout", "api exception"}

\* the failure reasons of the last level that was handed the URL
LastReasonsOf(url) == ReasonsOf(crawl_levels(use_browser)[LastLevelOf(url)])

\* C29: a URL that went through every configured tier without any of them
\* reporting admissible content is returned as a failed record whose error
\* is a failure reason of the last tier that attempted it: not the
\* placeholder 'Not yet attempted', and not the reason of an earlier tier.
C29_FailedWithLastReason ==
    pc = "done" =>
        \A i \in DOMAIN returned :
            NeverAdmissible(urls[i]) =>
                /\ returned[i].url = urls[i]
                /\ ~returned[i].success
                /\ returned[i].error # "Not yet attempted"
                /\ returned[i].error \in LastReasonsOf(urls[i])
                /\ \A level \in Range(crawl_levels(use_browser)) \ {"apis"} :
                      returned[i].error \notin ReasonsOf(level)

\* a URL that the lightweight tier, the browser and the paid services all
\* failed on is returned with the reason of the paid tier, next to a URL
\* that succeeded
C29_Witness ==
    /\ pc = "done"
    /\ use_browser
    /\ \E i, j \in DOMAIN returned :
          /\ NeverAdmissible(urls[i])
          /\ LastLevelOf(urls[i]) = 3
          /\ returned[i].error = "All API services failed"
          /\ returned[j].success

\* C30: after every tier and after the final cross-page deduplication the
\* i-th record has the URL of the i-th input URL.
C30_RecordsInInputOrder ==
    /\ pc \in {"levels", "done"} =>
          /\ Len(results) = Len(urls)
          /\ \A i \in DOMAIN results : results[i].url = urls[i]
    /\ pc = "done" /\ urls # <<>> =>
          /\ Len(returned) = Len(urls)
          /\ \A i \in DOMAIN returned : returned[i].url = urls[i]

\* the second URL was finalized by the lightweight tier and the first one
\* only by the paid tier, with the same content: the records are in input
\* order, and the deduplication took the paragraphs from the second
C30_Witness ==
    /\ pc = "done"
    /\ Len(urls) = 2 /\ urls[1] # urls[2]
    /\ returned[1].success /\ returned[1].src = "api" /\ returned[1].md = TextOk
    /\ returned[2].success /\ returned[2].src = "requests" /\ returned[2].md # TextOk
    /\ returned[1].url = urls[1] /\ returned[2].url = urls[2]
====
